---- MODULE Spec2Model ----
(***************************************************************************)
(* Analysis scripts of the adropt-ns3 repository:                          *)
(*   - scratch/analyze_simulation.py : the "ground truth" script           *)
(*       (establish_ground_truth, GroundTruthData.validate, main)          *)
(*   - analyze_simulation.py : SimulationAnalyzer (parsers,                *)
(*       calculate_error_rates, display_error_analysis)                    *)
(*   - temp_analyzer.py : FEC analysis                                     *)
(*                                                                         *)
(* Rates are Python floats (IEEE-754 binary64).  They are modelled bit for *)
(* bit: a float is a sign, a 53-bit mantissa (four limbs in base 2^15,     *)
(* most significant first, the first limb holding 8 bits) and the binary   *)
(* exponent of the mantissa's last bit.  Every operation computes the      *)
(* exact result and rounds it to nearest, ties to even.                    *)
(* Exponent range limits (overflow, subnormals) are never reached by the   *)
(* values of the model and are not modelled.                               *)
(***************************************************************************)
EXTENDS Integers, Sequences, FiniteSets, TLC

----------------------------------------------------------------------------
(* binary64 arithmetic *)

LimbBits == 15
Base == 32768
TopBits == 8
ManLimbs == 4

None == "None"

RECURSIVE Pow2(_)
Pow2(n) == IF n = 0 THEN 1 ELSE 2 * Pow2(n - 1)

Zeros(n) == [i \in 1..n |-> 0]

MinOf(S) == CHOOSE x \in S : \A y \in S : x <= y
MaxOf(S) == CHOOSE x \in S : \A y \in S : x >= y

\* the number of bits of a limb x, 0 < x < Base
BitLen(x) == CHOOSE k \in 1..LimbBits : Pow2(k - 1) <= x /\ x < Pow2(k)

\* the limbs of a natural number, most significant first (<<>> for 0)
RECURSIVE NatLimbs(_)
NatLimbs(n) == IF n = 0 THEN <<>> ELSE Append(NatLimbs(n \div Base), n % Base)

\* the natural number a limb sequence denotes (at most two limbs)
RECURSIVE LimbsNat(_)
LimbsNat(a) ==
    IF a = <<>> THEN 0 ELSE Base * LimbsNat(SubSeq(a, 1, Len(a) - 1)) + a[Len(a)]

StripZeros(a) ==
    LET nz == {i \in 1..Len(a) : a[i] # 0}
    IN  IF nz = {} THEN <<>> ELSE SubSeq(a, MinOf(nz), Len(a))

\* a on n limbs
PadLimbs(a, n) == Zeros(n - Len(StripZeros(a))) \o StripZeros(a)

\* a + b for limb sequences of equal length; the result is one limb longer
RECURSIVE AddLimbsRec(_, _, _, _, _)
AddLimbsRec(a, b, i, carry, acc) ==
    IF i = 0 THEN <<carry>> \o acc
    ELSE LET s == a[i] + b[i] + carry
         IN  AddLimbsRec(a, b, i - 1, s \div Base, <<s % Base>> \o acc)
AddLimbs(a, b) == AddLimbsRec(a, b, Len(a), 0, <<>>)

\* a - b for limb sequences of equal length with a >= b
RECURSIVE SubLimbsRec(_, _, _, _, _)
SubLimbsRec(a, b, i, borrow, acc) ==
    IF i = 0 THEN acc
    ELSE LET d == a[i] - b[i] - borrow
         IN  SubLimbsRec(a, b, i - 1, IF d < 0 THEN 1 ELSE 0,
                         <<IF d < 0 THEN d + Base ELSE d>> \o acc)
SubLimbs(a, b) == SubLimbsRec(a, b, Len(a), 0, <<>>)

\* a * k for a limb sequence a and a natural k < Base
RECURSIVE MulLimbsRec(_, _, _, _, _)
MulLimbsRec(a, k, i, carry, acc) ==
    IF i = 0 THEN NatLimbs(carry) \o acc
    ELSE LET t == a[i] * k + carry
         IN  MulLimbsRec(a, k, i - 1, t \div Base, <<t % Base>> \o acc)
MulLimbs(a, k) == MulLimbsRec(a, k, Len(a), 0, <<>>)

\* a < b for limb sequences of equal length
LessLimbs(a, b) ==
    \E i \in 1..Len(a) : a[i] < b[i] /\ \A j \in 1..(i - 1) : a[j] = b[j]

\* a shifted right by r bits, 0 <= r < LimbBits (the low r bits are dropped)
ShiftRight(a, r) ==
    [j \in 1..Len(a) |->
        (a[j] \div Pow2(r))
        + (IF j > 1 THEN (a[j - 1] % Pow2(r)) * Pow2(LimbBits - r) ELSE 0)]

FZero == [sgn |-> 0, exp |-> 0, man |-> <<>>]

\* the mantissa keep (ManLimbs limbs) is rounded up when the limbs cut off
\* (tail, and below them a non-zero part when sticky) are more than half of
\* its last bit, or exactly half and the mantissa is odd
RoundsUp(keep, tail, sticky) ==
    /\ tail[1] >= Base \div 2
    /\ \/ sticky
       \/ tail[1] % (Base \div 2) # 0
       \/ \E i \in 2..Len(tail) : tail[i] # 0
       \/ keep[ManLimbs] % 2 = 1

\* the float of the incremented mantissa inc
RoundedUp(sgn, inc, e) ==
    IF inc[1] = Pow2(TopBits)
    THEN [sgn |-> sgn, exp |-> e + 1, man |-> <<Pow2(TopBits - 1)>> \o Zeros(ManLimbs - 1)]
    ELSE [sgn |-> sgn, exp |-> e, man |-> inc]

\* sgn * c * 2^e for limbs c whose first limb holds exactly TopBits bits
RoundNormal(sgn, c, e, sticky) ==
    IF Len(c) <= ManLimbs
    THEN [sgn |-> sgn, exp |-> e - LimbBits * (ManLimbs - Len(c)),
          man |-> c \o Zeros(ManLimbs - Len(c))]
    ELSE IF ~RoundsUp(SubSeq(c, 1, ManLimbs), SubSeq(c, ManLimbs + 1, Len(c)), sticky)
    THEN [sgn |-> sgn, exp |-> e + LimbBits * (Len(c) - ManLimbs),
          man |-> SubSeq(c, 1, ManLimbs)]
    ELSE RoundedUp(sgn,
                   StripZeros(AddLimbs(SubSeq(c, 1, ManLimbs),
                                       Zeros(ManLimbs - 1) \o <<1>>)),
                   e + LimbBits * (Len(c) - ManLimbs))

\* sgn * a * 2^e, a shifted left by s bits so that its first limb holds
\* exactly TopBits bits
RoundShifted(sgn, a, e, sticky, s) ==
    RoundNormal(sgn, StripZeros(MulLimbs(a, Pow2(s))), e - s, sticky)

\* the shift that leaves TopBits bits in a first limb of bl bits
ShiftFor(bl) == IF bl <= TopBits THEN TopBits - bl ELSE LimbBits + TopBits - bl

RoundStripped(sgn, a, e, sticky) ==
    IF a = <<>> THEN FZero
    ELSE RoundShifted(sgn, a, e, sticky, ShiftFor(BitLen(a[1])))

\* sgn * limbs * 2^e (plus, when sticky, a non-zero part below the last
\* bit), rounded to 53 bits: to nearest, ties to even
RoundLimbs(sgn, limbs, e, sticky) == RoundStripped(sgn, StripZeros(limbs), e, sticky)

\* float(n) for an int n
FromInt(n) ==
    RoundLimbs(IF n < 0 THEN -1 ELSE 1, NatLimbs(IF n < 0 THEN -n ELSE n), 0, FALSE)

FNeg(x) == [x EXCEPT !.sgn = -x.sgn]

\* |x| < |y| for non-zero floats
MagLess(x, y) == x.exp < y.exp \/ (x.exp = y.exp /\ LessLimbs(x.man, y.man))

\* x < y
FLt(x, y) ==
    IF x.sgn # y.sgn THEN x.sgn < y.sgn
    ELSE IF x.sgn = 0 THEN FALSE
    ELSE IF x.sgn = 1 THEN MagLess(x, y)
    ELSE MagLess(y, x)

\* x <= y
FLe(x, y) == x = y \/ FLt(x, y)

\* max(x, y)
FMax(x, y) == IF FLt(x, y) THEN y ELSE x

\* abs(x)
FAbs(x) == [x EXCEPT !.sgn = IF x.sgn = 0 THEN 0 ELSE 1]

\* the float of a quotient, from its limbs and its remainder
RoundFraction(sgn, q, e) == RoundLimbs(sgn, q.limbs, e, q.rem # 0)

\* n limbs of the fraction rem / q, and the final remainder
RECURSIVE FracLimbs(_, _, _, _)
FracLimbs(rem, q, n, acc) ==
    IF n = 0 THEN [limbs |-> acc, rem |-> rem]
    ELSE FracLimbs((rem * Base) % q, q, n - 1, Append(acc, (rem * Base) \div q))

\* the limbs of a \div q from limb i on, and the final remainder
RECURSIVE DivLimbs(_, _, _, _, _)
DivLimbs(a, q, i, rem, acc) ==
    IF i > Len(a) THEN [limbs |-> acc, rem |-> rem]
    ELSE DivLimbs(a, q, i + 1, (rem * Base + a[i]) % q,
                  Append(acc, (rem * Base + a[i]) \div q))

\* q = odd * 2^twos
RECURSIVE OddPart(_, _)
OddPart(q, twos) ==
    IF q % 2 = 0 THEN OddPart(q \div 2, twos + 1) ELSE [odd |-> q, twos |-> twos]

\* x / (odd * 2^twos), given the integer part ip of man / odd
DivByOdd(sgn, x, q, ip) ==
    RoundFraction(sgn,
                  FracLimbs(ip.rem, q.odd, ManLimbs + 1, ip.limbs),
                  x.exp - q.twos - LimbBits * (ManLimbs + 1))

DivByOddPart(sgn, x, q) == DivByOdd(sgn, x, q, DivLimbs(x.man, q.odd, 1, 0, <<>>))

\* x / k for a float x and an int k # 0 whose odd part is below Base:
\* true division, correctly rounded
FDivFI(x, k) ==
    IF x.sgn = 0 THEN FZero
    ELSE DivByOddPart(IF k < 0 THEN -x.sgn ELSE x.sgn, x, OddPart(IF k < 0 THEN -k ELSE k, 0))

\* a / b for ints a and b, b # 0: true division, correctly rounded
FDivInt(a, b) == FDivFI(FromInt(a), b)

\* a + b for limb sequences of any lengths
AddLimbsPad(a, b) ==
    LET n == IF Len(a) > Len(b) THEN Len(a) ELSE Len(b)
    IN  AddLimbs(Zeros(n - Len(a)) \o a, Zeros(n - Len(b)) \o b)

\* a * b for limb sequences, from limb j of b on (acc holds a * b[1..j-1])
RECURSIVE MulLimbSeqs(_, _, _, _)
MulLimbSeqs(a, b, j, acc) ==
    IF j > Len(b) THEN acc
    ELSE MulLimbSeqs(a, b, j + 1, AddLimbsPad(acc \o <<0>>, MulLimbs(a, b[j])))

\* x * y
FMul(x, y) ==
    IF x.sgn = 0 \/ y.sgn = 0 THEN FZero
    ELSE RoundLimbs(x.sgn * y.sgn, MulLimbSeqs(x.man, y.man, 1, <<>>),
                    x.exp + y.exp, FALSE)

\* x * k for a float x and an int k, |k| < Base
FMulInt(x, k) ==
    IF x.sgn = 0 \/ k = 0 THEN FZero
    ELSE RoundLimbs(IF k < 0 THEN -x.sgn ELSE x.sgn,
                    MulLimbs(x.man, IF k < 0 THEN -k ELSE k), x.exp, FALSE)

\* the mantissa of the non-zero float x on the exponent e <= x.exp
MantissaAt(x, e) ==
    MulLimbs(x.man, Pow2((x.exp - e) % LimbBits)) \o Zeros((x.exp - e) \div LimbBits)

\* x + y for non-zero floats whose mantissas on the common exponent e are
\* xa and ya, on equally many limbs
AddAligned(x, y, e, xa, ya) ==
    IF x.sgn = y.sgn THEN RoundLimbs(x.sgn, AddLimbs(xa, ya), e, FALSE)
    ELSE IF xa = ya THEN FZero
    ELSE IF LessLimbs(xa, ya)
         THEN RoundLimbs(y.sgn, SubLimbs(ya, xa), e, FALSE)
         ELSE RoundLimbs(x.sgn, SubLimbs(xa, ya), e, FALSE)

\* x + y for non-zero floats, on their common (smaller) exponent e
AddAt(x, y, e) ==
    AddAligned(x, y, e,
               PadLimbs(MantissaAt(x, e),
                        ManLimbs + 2 + ((x.exp - e) + (y.exp - e)) \div LimbBits),
               PadLimbs(MantissaAt(y, e),
                        ManLimbs + 2 + ((x.exp - e) + (y.exp - e)) \div LimbBits))

\* x + y
FAdd(x, y) ==
    IF x.sgn = 0 THEN y
    ELSE IF y.sgn = 0 THEN x
    ELSE AddAt(x, y, IF x.exp < y.exp THEN x.exp ELSE y.exp)

\* x - y
FSub(x, y) == FAdd(x, FNeg(y))

\* the greatest d in lo..hi with d * b <= cur  (0 * b <= cur, hi < Base)
RECURSIVE QuoDigit(_, _, _, _)
QuoDigit(cur, b, lo, hi) ==
    IF lo = hi THEN lo
    ELSE IF LessLimbs(PadLimbs(cur, ManLimbs + 2),
                      PadLimbs(MulLimbs(b, (lo + hi + 1) \div 2), ManLimbs + 2))
         THEN QuoDigit(cur, b, lo, ((lo + hi + 1) \div 2) - 1)
         ELSE QuoDigit(cur, b, (lo + hi + 1) \div 2, hi)

\* the limbs of a \div b from limb i of a on, and the final remainder, for
\* limb sequences a and b; DivLimbStep is given the quotient limb d
RECURSIVE DivLimbSeqs(_, _, _, _, _)
DivLimbStep(a, b, i, rem, acc, d) ==
    DivLimbSeqs(a, b, i + 1,
                SubLimbs(PadLimbs(rem \o <<a[i]>>, ManLimbs + 2),
                         PadLimbs(MulLimbs(b, d), ManLimbs + 2)),
                Append(acc, d))
DivLimbSeqs(a, b, i, rem, acc) ==
    IF i > Len(a) THEN [limbs |-> acc, rem |-> rem]
    ELSE DivLimbStep(a, b, i, rem, acc, QuoDigit(rem \o <<a[i]>>, b, 0, Base - 1))

\* the float of a quotient, from its limbs and its remainder limbs
RoundQuotient(sgn, q, e) == RoundLimbs(sgn, q.limbs, e, StripZeros(q.rem) # <<>>)

\* x / y for floats, y # 0: true division, correctly rounded
FDiv(x, y) ==
    IF x.sgn = 0 THEN FZero
    ELSE RoundQuotient(x.sgn * y.sgn,
                       DivLimbSeqs(x.man \o Zeros(ManLimbs), y.man, 1, <<>>, <<>>),
                       x.exp - y.exp - LimbBits * ManLimbs)

F100 == FromInt(100)
F1 == FromInt(1)

\* int(x): truncation toward zero (|x| < 2^30)
FTrunc(x) ==
    IF x.sgn = 0 THEN 0
    ELSE IF x.exp >= 0 THEN x.sgn * LimbsNat(x.man) * Pow2(x.exp)
    ELSE IF (-x.exp) \div LimbBits >= ManLimbs THEN 0
    ELSE x.sgn * LimbsNat(ShiftRight(SubSeq(x.man, 1, ManLimbs - ((-x.exp) \div LimbBits)),
                                     (-x.exp) % LimbBits))

----------------------------------------------------------------------------
(* analyze_simulation.py : SimulationAnalyzer *)

\* sizes of the input files the model enumerates
MaxPkts == 7
MaxCount == 5
MaxAttempts == 4
MaxTime == 1
MaxGlobalRows == 2
MaxPhyRows == 2
MaxStatLines == 2

\* {} : the empty dict; a dict is a function of its keys
EmptyDict == <<>>
IsEmptyDict(d) == DOMAIN d = {}

\* the efficiency column of adr_transmission_stats.txt is written in halves
\* (0.5, 1.0, 1.5, ...): every such value is a float exactly
EffDen == 2

VARIABLES
    stats_file,          \* adr_transmission_stats.txt: exists, its Device lines
    global_file,         \* globalPerformance.txt: exists, its lines
    phy_file,            \* phyPerformance.txt: exists, its lines
    an_pc,               \* position in analyze_results
    transmission_stats,  \* parse_transmission_stats()
    global_df,           \* parse_global_performance()
    phy_df,              \* parse_phy_performance()
    error_analysis,      \* calculate_error_rates(...)
    an_raised            \* the exception that left analyze_results, or None

anVars == <<stats_file, global_file, phy_file, an_pc, transmission_stats,
            global_df, phy_df, error_analysis, an_raised>>

\* scratch/analyze_simulation.py: the state of one run of the ground-truth script
VARIABLES
    radio_files,            \* the three candidate files: status and content
    adr_file,               \* status of paper_replication_adr.csv
    log_content,            \* the first readable log file, and its two counts
    pc,                     \* position in main / establish_ground_truth
    gt,                     \* the GroundTruthData record
    validate_result,        \* what gt.validate() returned
    executed,               \* the analysis functions main has called
    device_pdrs,            \* plot_enhanced_performance_analysis
    device_pers,
    device_estimated_ders,
    summary_rates,          \* generate_research_summary, per device
    raised                  \* the exception that left main, or None

gtVars == <<radio_files, adr_file, log_content, pc, gt, validate_result, executed,
            device_pdrs, device_pers, device_estimated_ders, summary_rates, raised>>

\* temp_analyzer.py: the state of one run of the FEC analysis
VARIABLES
    fec_files,              \* the input files: status and content
    fec_pc,                 \* position in main
    data,                   \* load_all_data(): data
    file_status,            \* load_all_data(): file_status
    packet_analysis,        \* analyze_fec_packet_flow(data)
    performance_analysis,   \* analyze_fec_performance_deep(data)
    diagnosis,              \* diagnose_fec_issues_comprehensive(...)
    report,                 \* what generate_detailed_fec_report writes
    final_summary,          \* what main prints last
    fec_raised              \* the exception that left main, or None

fecVars == <<fec_files, fec_pc, data, file_status, packet_analysis,
             performance_analysis, diagnosis, report, final_summary, fec_raised>>

vars == <<anVars, gtVars, fecVars>>

inputVars == <<radio_files, adr_file, log_content>>
metricVars == <<device_pdrs, device_pers, device_estimated_ders, summary_rates>>


\* one "Device,..." line (after a "Time: " line) becomes one snapshot
Snapshot(line) ==
    [time |-> line.time,
     nb_trans |-> line.nb_trans,
     efficiency |-> FDivInt(line.eff_num, EffDen),
     total_attempts |-> line.total_attempts,
     adjustments |-> line.adjustments,
     successful_packets |->
         IF line.eff_num > 0
         THEN FTrunc(FDivInt(line.total_attempts * EffDen, line.eff_num))
         ELSE 0,
     failed_attempts |->
         IF line.eff_num > 0
         THEN line.total_attempts
                  - FTrunc(FDivInt(line.total_attempts * EffDen, line.eff_num))
         ELSE line.total_attempts]

\* A line the parser cannot turn into a record, by what the parser looks
\* at: the number of its fields, and whether the fields the parser converts
\* with int() and float() are all numbers.  Every other line of a file is
\* given by the record it becomes.
Malformed(fields, numeric) == [malformed |-> TRUE, fields |-> fields, numeric |-> numeric]

IsMalformed(line) == "malformed" \in DOMAIN line

\* the exception one line raises in a parser that tests len(parts) >= guard
\* and then reads parts[0] to parts[last], or None: a line that fails the
\* test is passed over, int() or float() of a field that is no number
\* raises ValueError, the index of a field the line lacks raises IndexError
line_raises(line, guard, last) ==
    IF ~IsMalformed(line) THEN None
    ELSE IF line.fields < guard THEN None
    ELSE IF ~line.numeric THEN "ValueError"
    ELSE IF line.fields <= last THEN "IndexError"
    ELSE None

\* the exception that leaves the loop over the lines, or None
lines_raise(lines, guard, last) ==
    IF \E i \in 1..Len(lines) : line_raises(lines[i], guard, last) # None
    THEN line_raises(
             lines[MinOf({i \in 1..Len(lines) : line_raises(lines[i], guard, last) # None})],
             guard, last)
    ELSE None

\* the lines that become records
wellformed(lines) == LET Is(l) == ~IsMalformed(l) IN SelectSeq(lines, Is)

\* the snapshots of each device, in the order of its lines
device_stats(lines) ==
    LET ids == {lines[i].device_id : i \in 1..Len(lines)}
        OfDevice(d) == LET Is(l) == l.device_id = d IN SelectSeq(lines, Is)
    IN  [d \in ids |-> [i \in 1..Len(OfDevice(d)) |-> Snapshot(OfDevice(d)[i])]]

\* parse_transmission_stats: a Device line is read when it has 9 fields or
\* more, and parts[9] is its tenth field
parse_transmission_stats(file) ==
    IF ~file.exists THEN [raised |-> None, value |-> EmptyDict]
    ELSE IF lines_raise(file.lines, 9, 9) # None
    THEN [raised |-> lines_raise(file.lines, 9, 9)]
    ELSE [raised |-> None, value |-> device_stats(wellformed(file.lines))]

\* pd.DataFrame() and pd.DataFrame([]) are the same empty frame without
\* columns: a frame is the sequence of its rows
parse_global_performance(file) ==
    IF ~file.exists THEN [raised |-> None, value |-> <<>>]
    ELSE IF lines_raise(file.lines, 3, 2) # None
    THEN [raised |-> lines_raise(file.lines, 3, 2)]
    ELSE [raised |-> None, value |-> wellformed(file.lines)]

parse_phy_performance(file) ==
    IF ~file.exists THEN [raised |-> None, value |-> <<>>]
    ELSE IF lines_raise(file.lines, 7, 6) # None
    THEN [raised |-> lines_raise(file.lines, 7, 6)]
    ELSE [raised |-> None, value |-> wellformed(file.lines)]

\* lines 83-94: the entry of one device, given its error rate
device_entry(latest_stats, packet_error_rate) ==
    [total_attempts |-> latest_stats.total_attempts,
     successful_packets |-> latest_stats.successful_packets,
     failed_attempts |-> latest_stats.failed_attempts,
     packet_error_rate |-> packet_error_rate,
     packet_delivery_rate |-> FSub(F100, packet_error_rate),
     transmission_efficiency |-> latest_stats.efficiency,
     transmission_overhead |->
         IF FLe(F1, latest_stats.efficiency)
         THEN FMulInt(FSub(latest_stats.efficiency, F1), 100)
         ELSE FZero,
     avg_retransmissions |-> FSub(latest_stats.efficiency, F1),
     nb_trans_current |-> latest_stats.nb_trans,
     adr_adjustments |-> latest_stats.adjustments]

\* lines 73-94
per_device_entry(latest_stats) ==
    device_entry(latest_stats,
                 IF latest_stats.total_attempts > 0
                 THEN FMulInt(FDivInt(latest_stats.failed_attempts,
                                      latest_stats.total_attempts), 100)
                 ELSE FZero)

per_device(stats) ==
    [d \in {e \in DOMAIN stats : stats[e] # <<>>} |->
        per_device_entry(stats[d][Len(stats[d])])]

\* lines 104-111: the summary, given the delivery rate
summary_entry(total_sent, total_received, network_pdr) ==
    [total_packets_sent |-> total_sent,
     total_packets_received |-> total_received,
     packets_lost |-> total_sent - total_received,
     network_pdr |-> network_pdr,
     network_per |-> FSub(F100, network_pdr),
     overall_efficiency |-> IF total_sent > 0
                            THEN FDivInt(total_received, total_sent)
                            ELSE FZero]

\* lines 97-111
network_summary(df) ==
    IF df = <<>> THEN EmptyDict
    ELSE summary_entry(df[Len(df)].packets_sent, df[Len(df)].packets_received,
                       IF df[Len(df)].packets_sent > 0
                       THEN FMulInt(FDivInt(df[Len(df)].packets_received,
                                            df[Len(df)].packets_sent), 100)
                       ELSE FZero)

\* lines 130-139: the entry of one gateway, given its total
gateway_tally(latest_gw, total_processed) ==
    [packets_received |-> latest_gw.packets_received,
     packets_interfered |-> latest_gw.packets_interfered,
     packets_under_sensitivity |-> latest_gw.packets_under_sensitivity,
     packets_no_receivers |-> latest_gw.packets_no_more_receivers,
     total_processed |-> total_processed,
     success_rate |->
         IF total_processed > 0
         THEN FMulInt(FDivInt(latest_gw.packets_received, total_processed), 100)
         ELSE FZero,
     interference_rate |->
         IF total_processed > 0
         THEN FMulInt(FDivInt(latest_gw.packets_interfered, total_processed), 100)
         ELSE FZero,
     sensitivity_error_rate |->
         IF total_processed > 0
         THEN FMulInt(FDivInt(latest_gw.packets_under_sensitivity, total_processed), 100)
         ELSE FZero]

\* a total that leaves out the packets lost for want of a receiver
gateway_entry_without_no_receivers(latest_gw) ==
    gateway_tally(latest_gw,
                  latest_gw.packets_received + latest_gw.packets_interfered
                      + latest_gw.packets_under_sensitivity)

\* a total of the errors alone
gateway_entry_errors_only(latest_gw) ==
    gateway_tally(latest_gw,
                  latest_gw.packets_interfered + latest_gw.packets_under_sensitivity
                      + latest_gw.packets_no_more_receivers)

\* lines 120-139
gateway_entry(latest_gw) ==
    gateway_tally(latest_gw,
                  latest_gw.packets_received
                      + (latest_gw.packets_interfered
                         + latest_gw.packets_under_sensitivity
                         + latest_gw.packets_no_more_receivers))

gateway_analysis(df) ==
    LET OfGateway(g) == LET Is(r) == r.gateway_id = g IN SelectSeq(df, Is)
    IN  [g \in {df[i].gateway_id : i \in 1..Len(df)} |->
            gateway_entry(OfGateway(g)[Len(OfGateway(g))])]

\* one entry of the temporal analysis, for the time point of row i
temporal_entry(df, time_point) ==
    LET At(r) == r.time = time_point
        Before(r) == r.time < time_point
        time_data == SelectSeq(df, At)
        prev_time_data == SelectSeq(df, Before)
        sent == time_data[1].packets_sent
        received == time_data[1].packets_received
        prev_sent == IF prev_time_data # <<>>
                     THEN prev_time_data[Len(prev_time_data)].packets_sent ELSE 0
        prev_received == IF prev_time_data # <<>>
                         THEN prev_time_data[Len(prev_time_data)].packets_received ELSE 0
        period_sent == sent - prev_sent
        period_received == received - prev_received
    IN  [time |-> time_point,
         cumulative_per |-> IF sent > 0
                            THEN FMulInt(FDivInt(sent - received, sent), 100) ELSE FZero,
         period_per |-> IF period_sent > 0
                        THEN FMulInt(FDivInt(period_sent - period_received, period_sent), 100)
                        ELSE FZero,
         period_sent |-> period_sent,
         period_received |-> period_received]

\* Series.unique(): the values in the order of their first appearance
unique_times(df) ==
    LET First(i) == \A j \in 1..(i - 1) : df[j].time # df[i].time
        firsts == SelectSeq([i \in 1..Len(df) |-> i], First)
    IN  [k \in 1..Len(firsts) |-> df[firsts[k]].time]

temporal_analysis(df) ==
    [k \in 1..Len(unique_times(df)) |-> temporal_entry(df, unique_times(df)[k])]

\* calculate_error_rates: the analysis it returns, or the exception it
\* raises.  global_df['time'] is a KeyError on a frame without columns.
calculate_error_rates(stats, gdf, pdf) ==
    IF gdf = <<>>
    THEN [raised |-> "KeyError"]
    ELSE [raised |-> None,
          value |-> [per_device |-> per_device(stats),
                     network_summary |-> network_summary(gdf),
                     temporal_analysis |-> temporal_analysis(gdf),
                     has_gateway_analysis |-> pdf # <<>>,
                     gateway_analysis |-> IF pdf # <<>> THEN gateway_analysis(pdf)
                                          ELSE EmptyDict]]

RECURSIVE SumOf(_, _)
SumOf(f, S) ==
    IF S = {} THEN 0
    ELSE LET x == CHOOSE y \in S : TRUE IN f[x] + SumOf(f, S \ {x})

\* display_error_analysis: the exception it raises, or None.  It prints
\* only; the gateway summary divides by the sum of total_processed.
display_error_analysis(ea) ==
    IF IsEmptyDict(ea.network_summary) THEN "KeyError"
    ELSE IF /\ ea.has_gateway_analysis
            /\ ~IsEmptyDict(ea.gateway_analysis)
            /\ SumOf([g \in DOMAIN ea.gateway_analysis |->
                         ea.gateway_analysis[g].total_processed],
                     DOMAIN ea.gateway_analysis) = 0
         THEN "ZeroDivisionError"
         ELSE None

\* the input files
File(lines) == [exists |-> TRUE, lines |-> lines]
NoFile == [exists |-> FALSE, lines |-> <<>>]

SeqsUpTo(S, n) == UNION {[1..k -> S] : k \in 0..n}

GlobalRow(t, s, r) == [time |-> t, packets_sent |-> s, packets_received |-> r]

PhyRow(t, g, tally) ==
    [time |-> t, gateway_id |-> g,
     packets_received |-> tally[1], packets_interfered |-> tally[2],
     packets_no_more_receivers |-> tally[4], packets_under_sensitivity |-> tally[3]]

StatLine(d, attempts, eff_num) ==
    [time |-> 0, device_id |-> d, nb_trans |-> 1, eff_num |-> eff_num,
     total_attempts |-> attempts, adjustments |-> 0]

\* (sent, received) pairs; the last one is the documented scenario
GlobalPairs == ((0..MaxPkts) \X (0..MaxPkts)) \cup {<<1000, 950>>}
FewPairs == {<<0, 0>>, <<1, 1>>, <<2, 1>>}

\* (received, interfered, under_sensitivity, no_receivers) tallies
Tallies ==
    ((0..MaxCount) \X (0..MaxCount) \X (0..MaxCount) \X (0..MaxCount))
        \cup {<<80, 10, 5, 5>>}
FewTallies == {<<0, 0, 0, 0>>, <<1, 0, 0, 0>>, <<1, 1, 1, 1>>}

EffNums == {-2, 0, 1, 2, 3, 4}
FewStats == {<<0, 2>>, <<2, 2>>, <<3, 3>>}
Gateways == {0, 1}
Devices == {1, 2}

GlobalFiles ==
    {NoFile}
    \cup {File(<<GlobalRow(0, p[1], p[2])>>) : p \in GlobalPairs}
    \cup {File(l) : l \in SeqsUpTo({GlobalRow(t, p[1], p[2]) :
                                       t \in 0..MaxTime, p \in FewPairs}, MaxGlobalRows)}

PhyFiles ==
    {NoFile}
    \cup {File(<<PhyRow(0, 0, t)>>) : t \in Tallies}
    \cup {File(l) : l \in SeqsUpTo({PhyRow(t, g, c) :
                                       t \in 0..MaxTime, g \in Gateways, c \in FewTallies},
                                   MaxPhyRows)}

StatsFiles ==
    {NoFile}
    \cup {File(<<StatLine(1, a, e)>>) : a \in 0..MaxAttempts, e \in EffNums}
    \cup {File(l) : l \in SeqsUpTo({StatLine(d, c[1], c[2]) : d \in Devices, c \in FewStats},
                                   MaxStatLines)}

\* lines that cannot be parsed: too few fields, or a field that is no number
BadGlobalLines == {Malformed(2, TRUE), Malformed(2, FALSE), Malformed(3, FALSE)}
BadPhyLines == {Malformed(6, TRUE), Malformed(6, FALSE), Malformed(7, FALSE)}
BadStatLines ==
    {Malformed(8, TRUE), Malformed(8, FALSE), Malformed(9, TRUE), Malformed(9, FALSE),
     Malformed(10, FALSE)}

\* a line that cannot be parsed, alone, and before, between or after good lines
Around(bad, first, second) ==
    {<<bad>>, <<bad, first>>, <<first, bad>>, <<first, bad, second>>}

TypicalGlobal == File(<<GlobalRow(0, 2, 1)>>)
TypicalPhy == File(<<PhyRow(0, 0, <<1, 1, 1, 1>>)>>)
TypicalStats == File(<<StatLine(1, 2, 2)>>)

\* one file varies over its whole range while the others are typical, and
\* every combination of missing, empty and typical files
MalformedInputs ==
    ({File(l) : l \in UNION {Around(b, GlobalRow(0, 2, 1), GlobalRow(1, 3, 2)) :
                                b \in BadGlobalLines}}
         \X {TypicalPhy} \X {TypicalStats})
    \cup ({TypicalGlobal}
          \X {File(l) : l \in UNION {Around(b, PhyRow(0, 0, <<1, 1, 1, 1>>),
                                            PhyRow(1, 1, <<1, 0, 0, 0>>)) :
                                     b \in BadPhyLines}}
          \X {TypicalStats})
    \cup ({TypicalGlobal} \X {TypicalPhy}
          \X {File(l) : l \in UNION {Around(b, StatLine(1, 2, 2), StatLine(2, 3, 3)) :
                                     b \in BadStatLines}})

AnalyzerInputs ==
    MalformedInputs
    \cup (GlobalFiles \X {TypicalPhy} \X {TypicalStats})
    \cup ({TypicalGlobal} \X PhyFiles \X {TypicalStats})
    \cup ({TypicalGlobal} \X {TypicalPhy} \X StatsFiles)
    \cup ({NoFile, File(<<>>), TypicalGlobal}
          \X {NoFile, File(<<>>), File(<<PhyRow(0, 0, <<0, 0, 0, 0>>)>>), TypicalPhy}
          \X {NoFile, TypicalStats})

NoAnalysis ==
    [per_device |-> EmptyDict, network_summary |-> EmptyDict,
     temporal_analysis |-> <<>>, has_gateway_analysis |-> FALSE,
     gateway_analysis |-> EmptyDict]

\* the analyzer before analyze_results is called on the given files
AnalyzerStart(in, at) ==
    /\ global_file = in[1]
    /\ phy_file = in[2]
    /\ stats_file = in[3]
    /\ an_pc = at
    /\ transmission_stats = EmptyDict
    /\ global_df = <<>>
    /\ phy_df = <<>>
    /\ error_analysis = NoAnalysis
    /\ an_raised = None

\* analyze_results, lines 472-474, given what the parsers do: the first
\* exception leaves analyze_results and main
Parsed(g, p, t) ==
    IF g.raised # None \/ p.raised # None \/ t.raised # None
    THEN /\ an_raised' = IF g.raised # None THEN g.raised
                         ELSE IF p.raised # None THEN p.raised
                         ELSE t.raised
         /\ an_pc' = "parse_raised"
         /\ UNCHANGED <<transmission_stats, global_df, phy_df>>
    ELSE /\ global_df' = g.value
         /\ phy_df' = p.value
         /\ transmission_stats' = t.value
         /\ an_pc' = "parsed"
         /\ UNCHANGED an_raised

\* analyze_results, lines 470-474: the parsers
ParseFiles ==
    /\ an_pc = "start"
    /\ Parsed(parse_global_performance(global_file), parse_phy_performance(phy_file),
              parse_transmission_stats(stats_file))
    /\ UNCHANGED <<stats_file, global_file, phy_file, error_analysis, gtVars, fecVars>>

\* analyze_results, line 477, given what calculate_error_rates does; an
\* exception leaves analyze_results and main
Calculated(r) ==
    IF r.raised # None
    THEN /\ an_raised' = r.raised
         /\ an_pc' = "calculate_raised"
         /\ UNCHANGED error_analysis
    ELSE /\ error_analysis' = r.value
         /\ an_pc' = "calculated"
         /\ UNCHANGED an_raised

CalculateErrorRates ==
    /\ an_pc = "parsed"
    /\ Calculated(calculate_error_rates(transmission_stats, global_df, phy_df))
    /\ UNCHANGED <<stats_file, global_file, phy_file, transmission_stats, global_df, phy_df,
                   gtVars, fecVars>>

\* analyze_results, line 515, given what display_error_analysis does
Displayed(e) ==
    IF e # None
    THEN an_raised' = e /\ an_pc' = "display_raised"
    ELSE an_pc' = "displayed" /\ UNCHANGED an_raised

DisplayErrorAnalysis ==
    /\ an_pc = "calculated"
    /\ Displayed(display_error_analysis(error_analysis))
    /\ UNCHANGED <<stats_file, global_file, phy_file, transmission_stats, global_df,
                   phy_df, error_analysis, gtVars, fecVars>>

----------------------------------------------------------------------------
(* scratch/analyze_simulation.py : the ground-truth script *)

EXPECTED_PACKET_INTERVAL == 144
EXPECTED_SIMULATION_DAYS == 7
EXPECTED_GATEWAYS == 8
EXPECTED_FADING_STD == 8
EXPECTED_TOTAL_PACKETS ==
    FTrunc(FDivInt(EXPECTED_SIMULATION_DAYS * 24 * 3600, EXPECTED_PACKET_INTERVAL))

\* the order that would prefer radio_measurements.csv
RADIO_FILES_radio_measurements_first ==
    <<"radio_measurements.csv", "rssi_snr_measurements.csv",
      "radio_measurement_summary.csv">>

RADIO_FILES ==
    <<"rssi_snr_measurements.csv", "radio_measurements.csv",
      "radio_measurement_summary.csv">>

\* the columns a radio file can carry
Columns ==
    {"Time", "DeviceAddr", "GatewayID", "RSSI_dBm", "SNR_dB", "Fading_dB",
     "SpreadingFactor", "TxPower_dBm"}

\* A data frame, by what the script reads of it:
\*   cols               its columns
\*   device_rows        rows of each device address
\*   nan_time           of those, the rows whose Time is missing
\*   nan_only_gateways  gateways seen only in rows whose Time is missing
\* and, over the rows whose Time is present,
\*   gateways           distinct GatewayID values
\*   time_span          Time.max() - Time.min(), in seconds
\*   fading_std_nan     Fading_dB.std() is NaN (fewer than two rows)
\*   fading_std_tenths  Fading_dB.std(), in tenths of a dB
\*   sf_range           SpreadingFactor.max() - SpreadingFactor.min()
\*   power_range        TxPower_dBm.max() - TxPower_dBm.min()
\* Columns other than Time hold no missing values.
Frame(cols, device_rows, nan_time, gateways, nan_only_gateways, time_span, fading_std_tenths, sf_range, power_range) ==
    [cols |-> cols, device_rows |-> device_rows, nan_time |-> nan_time,
     gateways |-> gateways, nan_only_gateways |-> nan_only_gateways,
     time_span |-> time_span,
     fading_std_nan |->
         SumOf(device_rows, DOMAIN device_rows) - SumOf(nan_time, DOMAIN nan_time) < 2,
     fading_std_tenths |-> fading_std_tenths,
     sf_range |-> sf_range, power_range |-> power_range]

NoFrame == Frame({}, EmptyDict, EmptyDict, 0, 0, 0, 0, 0, 0)

\* len(df)
Rows(df) == SumOf(df.device_rows, DOMAIN df.device_rows)

\* df[col].unique() of the device addresses
unique_devices(df) == {d \in DOMAIN df.device_rows : df.device_rows[d] > 0}

\* df.dropna(subset=['Time'], inplace=True)
dropna_Time(df) ==
    [df EXCEPT !.device_rows = [d \in DOMAIN df.device_rows |->
                                   df.device_rows[d] - df.nan_time[d]],
               !.nan_time = [d \in DOMAIN df.nan_time |-> 0],
               !.nan_only_gateways = 0]

SimulationQuality ==
    [data_completeness |-> "Unknown", duration_accuracy |-> "Unknown",
     channel_model_accuracy |-> "Unknown", gateway_diversity |-> "Unknown",
     adropt_functioning |-> "Unknown", overall_confidence |-> "Unknown",
     warnings |-> <<>>]

GroundTruthData ==
    [has_radio_data |-> FALSE, radio_data |-> NoFrame, adr_data |-> FALSE,
     packets_sent_per_device |-> EmptyDict,
     packets_received_per_device |-> EmptyDict,
     simulation_duration |-> FZero, data_source_name |-> "",
     validated |-> FALSE, quality |-> SimulationQuality]

\* the bands with the first comparison the wrong way round
completeness_band_reversed(n, expected_full, expected_min) ==
    IF FLt(expected_min, n) THEN "Very Limited"
    ELSE IF FLt(n, FMul(expected_full, FDivInt(1, 10))) THEN "Limited"
    ELSE IF FLt(FMul(expected_full, FDivInt(1, 2)), n) THEN "Excellent"
    ELSE "Adequate"

\* validate, lines 102-113
completeness_band(n, expected_full, expected_min) ==
    IF FLt(n, expected_min) THEN "Very Limited"
    ELSE IF FLt(n, FMul(expected_full, FDivInt(1, 10))) THEN "Limited"
    ELSE IF FLt(FMul(expected_full, FDivInt(1, 2)), n) THEN "Excellent"
    ELSE "Adequate"

\* the minimum without the 1% of the expected count
expected_measurements_floor_only(expected_full) == <<expected_full, F100>>

\* validate, lines 99-100
expected_measurements(expected_full) ==
    <<expected_full, FMax(F100, FMul(expected_full, FDivInt(1, 100)))>>

\* validate, lines 97-113
data_completeness(measurement_count) ==
    completeness_band(
        FromInt(measurement_count),
        expected_measurements(FMul(FromInt(EXPECTED_TOTAL_PACKETS * EXPECTED_GATEWAYS),
                                   FDivInt(9, 10)))[1],
        expected_measurements(FMul(FromInt(EXPECTED_TOTAL_PACKETS * EXPECTED_GATEWAYS),
                                   FDivInt(9, 10)))[2])

\* validate, lines 123-128
duration_band(duration_ratio) ==
    IF FLe(FDivInt(8, 10), duration_ratio) /\ FLe(duration_ratio, FDivInt(12, 10))
    THEN "Accurate" ELSE "Inaccurate"

\* validate, lines 116-128
duration_accuracy(df) ==
    IF "Time" \notin df.cols THEN "Unknown"
    ELSE duration_band(FDivInt(df.time_span, EXPECTED_SIMULATION_DAYS * 24 * 3600))

\* validate, lines 131-141
gateway_diversity(df) ==
    IF "GatewayID" \notin df.cols THEN "Unknown"
    ELSE IF df.gateways = EXPECTED_GATEWAYS THEN "Complete"
    ELSE IF FLe(FMulInt(FDivInt(3, 4), EXPECTED_GATEWAYS), FromInt(df.gateways))
         THEN "Good"
    ELSE "Poor"

\* the bands with their limits included
channel_band_inclusive(std_error) ==
    IF FLe(std_error, FDivInt(1, 10)) THEN "Excellent"
    ELSE IF FLe(std_error, FDivInt(1, 4)) THEN "Good"
    ELSE "Poor"

\* validate, lines 148-156
channel_band(std_error) ==
    IF FLt(std_error, FDivInt(1, 10)) THEN "Excellent"
    ELSE IF FLt(std_error, FDivInt(1, 4)) THEN "Good"
    ELSE "Poor"

\* validate, lines 144-156; every comparison with NaN is false
channel_model_accuracy(df) ==
    IF "Fading_dB" \notin df.cols THEN "Unknown"
    ELSE IF df.fading_std_nan THEN "Poor"
    ELSE channel_band(FDivFI(FAbs(FSub(FDivInt(df.fading_std_tenths, 10),
                                       FromInt(EXPECTED_FADING_STD))),
                             EXPECTED_FADING_STD))

\* validate, lines 159-171
adropt_functioning(df) ==
    IF ~({"SpreadingFactor", "TxPower_dBm"} \subseteq df.cols) THEN "Unknown"
    ELSE IF df.sf_range >= 3 /\ df.power_range >= 5 THEN "Active"
    ELSE IF df.sf_range >= 1 \/ df.power_range >= 2 THEN "Limited"
    ELSE "Inactive"

\* validate, lines 187-193
quality_scores(q) ==
    <<q.data_completeness \in {"Adequate", "Excellent"},
      q.duration_accuracy = "Accurate",
      q.gateway_diversity \in {"Good", "Complete"},
      q.channel_model_accuracy \in {"Good", "Excellent"},
      q.adropt_functioning \in {"Limited", "Active"}>>

\* the confidence with its limits excluded
confidence_band_above(confidence_score) ==
    IF FLt(FDivInt(8, 10), confidence_score) THEN "High"
    ELSE IF FLt(FDivInt(6, 10), confidence_score) THEN "Medium"
    ELSE "Low"

\* validate, lines 197-202
confidence_band(confidence_score) ==
    IF FLe(FDivInt(8, 10), confidence_score) THEN "High"
    ELSE IF FLe(FDivInt(6, 10), confidence_score) THEN "Medium"
    ELSE "Low"

\* validate, line 195
confidence_of(scores) ==
    confidence_band(FDivInt(Cardinality({i \in 1..Len(scores) : scores[i]}), Len(scores)))

\* validate, lines 174-202
overall_confidence(q, actual_data_rows) ==
    IF actual_data_rows < 50 THEN "Very Low"
    ELSE IF actual_data_rows < 500 THEN "Low"
    ELSE confidence_of(quality_scores(q))

\* validate, lines 96-171
assessed_quality(df) ==
    [SimulationQuality EXCEPT
        !.data_completeness = data_completeness(Rows(df)),
        !.duration_accuracy = duration_accuracy(df),
        !.gateway_diversity = gateway_diversity(df),
        !.channel_model_accuracy = channel_model_accuracy(df),
        !.adropt_functioning = adropt_functioning(df)]

\* validate, lines 102-184: the warnings it appends to quality.warnings,
\* one in each branch that sets an unfavourable band, in the order of the
\* checks
appended_warnings(q, actual_data_rows) ==
    (IF q.data_completeness = "Very Limited" THEN <<"Very limited data">>
     ELSE IF q.data_completeness = "Limited" THEN <<"Limited data">>
     ELSE <<>>)
    \o (IF q.duration_accuracy = "Inaccurate" THEN <<"Duration">> ELSE <<>>)
    \o (IF q.gateway_diversity = "Good" THEN <<"gateways active">>
        ELSE IF q.gateway_diversity = "Poor" THEN <<"Only gateways active">>
        ELSE <<>>)
    \o (IF q.channel_model_accuracy = "Poor" THEN <<"Fading model off">> ELSE <<>>)
    \o (IF q.adropt_functioning = "Limited" THEN <<"Limited ADRopt activity">>
        ELSE IF q.adropt_functioning = "Inactive"
        THEN <<"No ADRopt optimization detected">>
        ELSE <<>>)
    \o (IF actual_data_rows < 50 THEN <<"Confidence Very Low">>
        ELSE IF actual_data_rows < 500 THEN <<"Confidence Low">>
        ELSE <<>>)

\* validate, lines 174-205: the confidence, and the flag only when the
\* frame has 500 rows or more
concluded(self, q, actual_data_rows) ==
    [self EXCEPT
        !.simulation_duration =
            IF "Time" \in self.radio_data.cols
            THEN FDivInt(self.radio_data.time_span, 24 * 3600) ELSE @,
        !.quality = [q EXCEPT !.overall_confidence =
                                  overall_confidence(q, actual_data_rows),
                              !.warnings = appended_warnings(q, actual_data_rows)],
        !.validated = IF actual_data_rows < 500 THEN @ ELSE TRUE]

\* validate, with the warnings it computed not kept on the record
validate_discarding_warnings(self) ==
    IF ~self.has_radio_data \/ Rows(self.radio_data) = 0
    THEN [self |-> [self EXCEPT !.quality = SimulationQuality], result |-> FALSE]
    ELSE [self |-> [concluded(self, assessed_quality(self.radio_data),
                              Rows(self.radio_data))
                       EXCEPT !.quality.warnings = <<>>],
          result |-> TRUE]

\* GroundTruthData.validate: the record after the call, and what it returns
validate(self) ==
    IF ~self.has_radio_data \/ Rows(self.radio_data) = 0
    THEN [self |-> [self EXCEPT
                       !.quality = [SimulationQuality EXCEPT
                                       !.warnings =
                                           <<"No radio measurement data available">>]],
          result |-> FALSE]
    ELSE [self |-> concluded(self, assessed_quality(self.radio_data),
                             Rows(self.radio_data)),
          result |-> TRUE]

\* the index of the last file that can be loaded, 0 if none
last_loadable(files) ==
    IF \E i \in 1..Len(files) : files[i].status = "ok"
    THEN MaxOf({i \in 1..Len(files) : files[i].status = "ok"})
    ELSE 0

\* the index of the file the loop of lines 216-224 stops at, 0 if none
first_loadable(files) ==
    IF \E i \in 1..Len(files) : files[i].status = "ok"
    THEN MinOf({i \in 1..Len(files) : files[i].status = "ok"})
    ELSE 0

\* establish_ground_truth, lines 213-229
LoadRadioData ==
    /\ pc = "start"
    /\ LET i == first_loadable(radio_files)
       IN  IF i = 0
           THEN /\ gt' = GroundTruthData
                /\ pc' = "established"
           ELSE /\ gt' = [GroundTruthData EXCEPT
                             !.has_radio_data = TRUE,
                             !.radio_data = radio_files[i].frame,
                             !.data_source_name = RADIO_FILES[i]]
                /\ pc' = "load_adr"
    /\ UNCHANGED <<inputVars, validate_result, executed, metricVars, raised, anVars, fecVars>>

\* establish_ground_truth, lines 231-237
LoadAdrData ==
    /\ pc = "load_adr"
    /\ gt' = [gt EXCEPT !.adr_data = (adr_file = "ok")]
    /\ pc' = "extract_counts"
    /\ UNCHANGED <<inputVars, validate_result, executed, metricVars, raised, anVars, fecVars>>

\* establish_ground_truth, lines 254-270: the counts of the log
counts_from_log(self, log) ==
    IF log.present /\ log.matched
    THEN LET ids == IF "DeviceAddr" \in self.radio_data.cols
                    THEN unique_devices(self.radio_data) ELSE {1}
         IN  [self EXCEPT
                 !.packets_sent_per_device = [d \in ids |-> log.total_sent],
                 !.packets_received_per_device = [d \in ids |-> log.total_received]]
    ELSE self

\* establish_ground_truth, lines 273-288: the estimate from the radio data
estimated_counts(self) ==
    LET df == self.radio_data
        ids == unique_devices(df)
    IN  [self EXCEPT
            !.packets_sent_per_device = [d \in ids |-> EXPECTED_TOTAL_PACKETS],
            !.packets_received_per_device =
                [d \in ids |-> df.device_rows[d]
                                  \div MaxOf({1, df.gateways + df.nan_only_gateways})]]

\* establish_ground_truth, lines 239-288
ExtractPacketCounts ==
    /\ pc = "extract_counts"
    /\ LET logged == counts_from_log(gt, log_content)
           df == logged.radio_data
       IN  IF ~IsEmptyDict(logged.packets_sent_per_device) \/ "DeviceAddr" \notin df.cols
           THEN gt' = logged /\ pc' = "clean" /\ UNCHANGED raised
           ELSE IF unique_devices(df) # {} /\ "GatewayID" \notin df.cols
           THEN gt' = logged /\ pc' = "crashed" /\ raised' = "KeyError"
           ELSE gt' = estimated_counts(logged) /\ pc' = "clean" /\ UNCHANGED raised
    /\ UNCHANGED <<inputVars, validate_result, executed, metricVars, anVars, fecVars>>

\* establish_ground_truth, lines 291-296
CleanData ==
    /\ pc = "clean"
    /\ IF "Time" \notin gt.radio_data.cols
       THEN pc' = "crashed" /\ raised' = "KeyError" /\ UNCHANGED gt
       ELSE /\ gt' = [gt EXCEPT !.radio_data = dropna_Time(gt.radio_data)]
            /\ pc' = "validate"
            /\ UNCHANGED raised
    /\ UNCHANGED <<inputVars, validate_result, executed, metricVars, anVars, fecVars>>

\* establish_ground_truth, lines 299-321, given what validate does
Validated(r) ==
    /\ gt' = r.self
    /\ validate_result' = IF r.result THEN "True" ELSE "False"

Validate ==
    /\ pc = "validate"
    /\ Validated(validate(gt))
    /\ pc' = "established"
    /\ UNCHANGED <<inputVars, executed, metricVars, raised, anVars, fecVars>>

\* main going on to the analyses whatever the validated flag
CheckValidated_ignoring_flag ==
    /\ pc = "established"
    /\ pc' = "consistency"
    /\ UNCHANGED <<inputVars, gt, validate_result, executed, metricVars, raised, anVars, fecVars>>

\* main, lines 936-939
CheckValidated ==
    /\ pc = "established"
    /\ pc' = IF ~gt.validated THEN "cannot_proceed" ELSE "consistency"
    /\ UNCHANGED <<inputVars, gt, validate_result, executed, metricVars, raised, anVars, fecVars>>

\* main, line 942
ValidateDataConsistency ==
    /\ pc = "consistency"
    /\ executed' = Append(executed, "validate_data_consistency")
    /\ pc' = "performance"
    /\ UNCHANGED <<inputVars, gt, validate_result, metricVars, raised, anVars, fecVars>>

\* lines 346-351 and 776-779: the data error rate estimated from per
estimated_rates(pdr, per) ==
    [pdr |-> pdr, per |-> per,
     estimated_der |-> IF FLe(per, FromInt(30))
                       THEN FMax(FDivInt(1, 100), FMul(per, FDivInt(1, 10)))
                       ELSE per]

\* an error rate taken from a fraction instead of a percentage
rates_from_fraction(pdr) == estimated_rates(pdr, FSub(F1, pdr))

\* lines 343-344 and 772-773
rates_from(pdr) == estimated_rates(pdr, FSub(F100, pdr))

\* plot_enhanced_performance_analysis, lines 339-359, for one device
device_rates(total_sent, total_received) ==
    IF total_sent > 0
    THEN rates_from(FMulInt(FDivInt(total_received, total_sent), 100))
    ELSE [pdr |-> FZero, per |-> F100, estimated_der |-> F100]

\* generate_research_summary, lines 770-779, for one device
summary_device_rates(sent, received) ==
    rates_from(IF sent > 0 THEN FMulInt(FDivInt(received, sent), 100) ELSE FZero)

\* lines 353-355: the three dicts
Plotted(rates) ==
    /\ device_pdrs' = [d \in DOMAIN rates |-> rates[d].pdr]
    /\ device_pers' = [d \in DOMAIN rates |-> rates[d].per]
    /\ device_estimated_ders' = [d \in DOMAIN rates |-> rates[d].estimated_der]

\* main, line 949
PlotEnhancedPerformanceAnalysis ==
    /\ pc = "performance"
    /\ executed' = Append(executed, "plot_enhanced_performance_analysis")
    /\ Plotted([d \in DOMAIN gt.packets_sent_per_device |->
                   device_rates(gt.packets_sent_per_device[d],
                                gt.packets_received_per_device[d])])
    /\ pc' = "adropt_evolution"
    /\ UNCHANGED <<inputVars, gt, validate_result, summary_rates, raised, anVars, fecVars>>

\* main, line 950
PlotAdroptEvolution ==
    /\ pc = "adropt_evolution"
    /\ executed' = Append(executed, "plot_adropt_evolution")
    /\ pc' = "fading_validation"
    /\ UNCHANGED <<inputVars, gt, validate_result, metricVars, raised, anVars, fecVars>>

\* main, line 951
PlotEnhancedFadingValidation ==
    /\ pc = "fading_validation"
    /\ executed' = Append(executed, "plot_enhanced_fading_validation")
    /\ pc' = "gateway_diversity"
    /\ UNCHANGED <<inputVars, gt, validate_result, metricVars, raised, anVars, fecVars>>

\* main, line 952
PlotGatewayDiversityAnalysis ==
    /\ pc = "gateway_diversity"
    /\ executed' = Append(executed, "plot_gateway_diversity_analysis")
    /\ pc' = "research_summary"
    /\ UNCHANGED <<inputVars, gt, validate_result, metricVars, raised, anVars, fecVars>>

\* main, lines 953-956
GenerateResearchSummary ==
    /\ pc = "research_summary"
    /\ executed' = Append(executed, "generate_research_summary")
    /\ summary_rates' =
           [d \in DOMAIN gt.packets_sent_per_device |->
               summary_device_rates(gt.packets_sent_per_device[d],
                                    gt.packets_received_per_device[d])]
    /\ pc' = IF "Fading_dB" \in gt.radio_data.cols THEN "fading_distribution"
             ELSE "complete"
    /\ UNCHANGED <<inputVars, gt, validate_result, device_pdrs, device_pers,
                   device_estimated_ders, raised, anVars, fecVars>>

\* main, line 957
PlotFadingDistribution ==
    /\ pc = "fading_distribution"
    /\ executed' = Append(executed, "plot_fading_distribution")
    /\ pc' = "complete"
    /\ UNCHANGED <<inputVars, gt, validate_result, metricVars, raised, anVars, fecVars>>

\* the input files of the ground-truth script
Absent == [status |-> "absent", frame |-> NoFrame]
Unreadable == [status |-> "unreadable", frame |-> NoFrame]
Loadable(df) == [status |-> "ok", frame |-> df]

NoLog == [present |-> FALSE, matched |-> FALSE, total_sent |-> 0, total_received |-> 0]
UnmatchedLog == [present |-> TRUE, matched |-> FALSE, total_sent |-> 0, total_received |-> 0]
Log(s, r) == [present |-> TRUE, matched |-> TRUE, total_sent |-> s, total_received |-> r]

MaxLogPkts == 7
MaxGateways == 9
MaxSfRange == 4
MaxPowerRange == 6

\* row counts around every threshold of validate
RowCounts == {0, 1, 2, 49, 50, 100, 302, 303, 499, 500, 3023, 3024, 15120, 15121, 30240}
TimeSpans == {0, 483839, 483840, 604800, 725760, 725761, 1209600}
FadingStds == {0, 59, 60, 61, 71, 72, 73, 76, 80, 87, 88, 89, 99, 100, 101}

\* a frame of the given devices whose statistics fit its number of rows
Measured(cols, device_rows, nan_time, g, ng, span, std, sf, pw) ==
    LET kept == SumOf(device_rows, DOMAIN device_rows) - SumOf(nan_time, DOMAIN nan_time)
        lost == SumOf(nan_time, DOMAIN nan_time)
    IN  Frame(cols, device_rows, nan_time, MinOf({g, kept}), MinOf({ng, lost}),
              IF kept < 2 THEN 0 ELSE span, std,
              IF kept < 2 THEN 0 ELSE sf, IF kept < 2 THEN 0 ELSE pw)

\* one device, n rows, the statistics of a complete simulation
Typical(cols, n) ==
    Measured(cols, [d \in {1} |-> n], [d \in {1} |-> 0], EXPECTED_GATEWAYS, 0,
             EXPECTED_SIMULATION_DAYS * 24 * 3600, 80, 3, 6)

Only(df) == <<Loadable(df), Absent, Absent>>

\* any columns, at sizes on both sides of every threshold
ByColumnsAndRows ==
    {<<Only(Typical(c, n)), "absent", l>> :
        c \in SUBSET Columns, n \in {0, 100, 499, 500, 30240},
        l \in {NoLog, Log(10, 9)}}
    \cup {<<Only(Typical(Columns, n)), "absent", l>> :
              n \in RowCounts, l \in {NoLog, Log(10, 9)}}

\* every statistic validate looks at
ByStatistics ==
    {<<Only(Measured(Columns, [d \in {1} |-> n], [d \in {1} |-> 0],
                     q[1], 0, q[2], q[3], q[4], q[5])), "absent", NoLog>> :
        n \in {500, 30240},
        q \in ({5, 6, 8} \X {0, 604800} \X {76, 120} \X {0, 3} \X {0, 5})
              \cup ((1..MaxGateways) \X {604800} \X {80} \X {3} \X {6})
              \cup ({8} \X TimeSpans \X {80} \X {3} \X {6})
              \cup ({8} \X {604800} \X FadingStds \X {3} \X {6})
              \cup ({8} \X {604800} \X {80} \X (0..MaxSfRange) \X (0..MaxPowerRange))}

\* the counts of the log, for one or two devices
ByLog ==
    {<<Only(Measured(c, [d \in ds |-> 500], [d \in ds |-> 0],
                     EXPECTED_GATEWAYS, 0, 604800, 80, 3, 6)), "absent", l>> :
        c \in {Columns, Columns \ {"DeviceAddr"}, Columns \ {"GatewayID"}},
        ds \in {{1}, {1, 2}},
        l \in {NoLog, UnmatchedLog, Log(1000, 950)}
                  \cup {Log(p[1], p[2]) : p \in (0..MaxLogPkts) \X (0..MaxLogPkts)}}

\* the counts estimated from the rows
ByEstimate ==
    {<<Only(Measured(Columns, [d \in {1} |-> n], [d \in {1} |-> 0],
                     g, 0, 604800, 80, 3, 6)), "absent", NoLog>> :
        n \in RowCounts \cup {33600, 40000}, g \in 1..MaxGateways}

\* rows whose Time is missing
ByMissingTime ==
    {<<Only(Measured(Columns, [d \in {1} |-> n], [d \in {1} |-> k],
                     EXPECTED_GATEWAYS, ng, 604800, 80, 3, 6)), "absent", l>> :
        n \in {1, 2, 50, 500, 501}, k \in {1, 2, 50, 500, 501}, ng \in {0, 1},
        l \in {NoLog, Log(10, 9)}}

FewFiles ==
    {Absent, Unreadable,
     Loadable(Typical(Columns, 30240)),
     Loadable(Typical(Columns \ {"RSSI_dBm"}, 30240)),
     Loadable(Typical(Columns \ {"RSSI_dBm", "SNR_dB"}, 30240)),
     Loadable(Typical(Columns, 100)),
     Loadable(Typical(Columns, 0)),
     Loadable(Typical(Columns \ {"Time"}, 30240))}

\* every combination of the three candidate files
ByFiles ==
    {<<<<f[1], f[2], f[3]>>, a, NoLog>> :
        f \in FewFiles \X FewFiles \X FewFiles,
        a \in {"absent", "unreadable", "ok"}}

GroundTruthInputs ==
    ByColumnsAndRows \cup ByStatistics \cup ByLog \cup ByEstimate
        \cup {in \in ByMissingTime :
                 in[1][1].frame.nan_time[1] <= in[1][1].frame.device_rows[1]}
        \cup ByFiles

\* the ground-truth script before main is called on the given files
GroundTruthStart(in, at) ==
    /\ radio_files = in[1]
    /\ adr_file = in[2]
    /\ log_content = in[3]
    /\ pc = at
    /\ gt = GroundTruthData
    /\ validate_result = "not called"
    /\ executed = <<>>
    /\ device_pdrs = EmptyDict
    /\ device_pers = EmptyDict
    /\ device_estimated_ders = EmptyDict
    /\ summary_rates = EmptyDict
    /\ raised = None

----------------------------------------------------------------------------
(* scratch/analyze_simulation.py : a GroundTruthData record used on its own *)

\* The class leaves radio_data open to assignment and validate() open to
\* any number of calls.  A record on its own is at the position "record":
\* its radio_data is replaced and validate() is called, in any order.

\* the sources a record is given: None, and frames of a complete simulation
\* with any number of records of RowCounts, all columns or no Time column
Replacements ==
    {<<>>} \cup {<<Typical(c, n)>> : c \in {Columns, Columns \ {"Time"}}, n \in RowCounts}

\* self.radio_data = source
assigned(self, source) ==
    [self EXCEPT !.has_radio_data = source # <<>>,
                 !.radio_data = IF source = <<>> THEN NoFrame ELSE source[1]]

ReplaceRadioData ==
    /\ pc = "record"
    /\ \E source \in Replacements : gt' = assigned(gt, source)
    /\ UNCHANGED <<inputVars, pc, validate_result, executed, metricVars, raised, anVars,
                   fecVars>>

\* self.validate()
ValidateRecord ==
    /\ pc = "record"
    /\ Validated(validate(gt))
    /\ UNCHANGED <<inputVars, pc, executed, metricVars, raised, anVars, fecVars>>

----------------------------------------------------------------------------
(* temp_analyzer.py : the FEC analysis *)

PAPER_TARGET_DER == 1
EXPECTED_GENERATION_SIZES == <<8, 16, 32, 64, 128>>
PACKET_INTERVAL == 144

\* float('nan') and float('inf')
FNaN == [sgn |-> 2, exp |-> 0, man |-> <<>>]
FInf == [sgn |-> 3, exp |-> 0, man |-> <<>>]

\* A value that may be None is a sequence: <<>> is None, <<v>> is v.

\* the columns of fec_performance.csv
FecColumns ==
    {"Time", "PhysicalDER", "ApplicationDER", "FecImprovement",
     "GenerationsProcessed", "PacketsRecovered"}

\* pd.read_csv of fec_performance.csv: its columns and its rows
FecFrame(cols, rows) == [cols |-> cols, rows |-> rows]

\* one line of fec_performance.csv: the time in seconds, the three decimal
\* fractions (numerator, denominator) as read_csv parses them, the counts
FecRecord(t, p, a, f, g, r) ==
    [Time |-> t, PhysicalDER |-> FDivInt(p[1], p[2]),
     ApplicationDER |-> FDivInt(a[1], a[2]), FecImprovement |-> FDivInt(f[1], f[2]),
     GenerationsProcessed |-> g, PacketsRecovered |-> r]

\* load_all_data, one .csv file: a missing or malformed file raises in
\* pd.read_csv, a non-empty frame without the columns of the preview raises
\* KeyError; `except Exception` turns each into None and puts the first
\* characters of the exception's message into the status
read_csv(key, file) ==
    IF file.status = "absent"
    THEN [value |-> <<>>, status |-> "Error: [Errno 2] No such file or di"]
    ELSE IF file.status # "ok"
    THEN [value |-> <<>>, status |-> "Error: Error tokenizing data"]
    ELSE IF /\ key = "fec_performance"
            /\ Len(file.frame.rows) > 0
            /\ ~({"GenerationsProcessed", "PacketsRecovered"} \subseteq file.frame.cols)
         THEN [value |-> <<>>, status |-> "Error: KeyError"]
    ELSE IF /\ key = "radio_measurements"
            /\ Rows(file.frame) > 0
            /\ ~({"DeviceAddr", "GatewayID", "Time"} \subseteq file.frame.cols)
         THEN [value |-> <<>>, status |-> "Error: KeyError"]
    ELSE [value |-> <<file.frame>>, status |-> "rows"]

\* load_all_data, one .txt file
read_txt(file) ==
    IF file = "ok" THEN [value |-> <<"content">>, status |-> "chars"]
    ELSE IF file = "absent" THEN [value |-> <<>>, status |-> "Not found"]
    ELSE [value |-> <<>>, status |-> "Error: codec can't decode"]

\* load_all_data, for the files the analysis reads and one of the text files
load_all_data(files) ==
    [k \in DOMAIN files |->
        IF k = "global_performance" THEN read_txt(files[k]) ELSE read_csv(k, files[k])]

\* analyze_fec_packet_flow: basic_stats
basic_stats(radio_data) ==
    [total_measurements |-> Rows(radio_data),
     unique_devices |-> Cardinality(unique_devices(radio_data)),
     unique_gateways |-> radio_data.gateways + radio_data.nan_only_gateways,
     time_span_hours |->
         IF Rows(radio_data) = SumOf(radio_data.nan_time, DOMAIN radio_data.nan_time)
         THEN FNaN ELSE FDivInt(radio_data.time_span, 3600),
     estimated_unique_packets |->
         IF radio_data.gateways + radio_data.nan_only_gateways > 0
         THEN Rows(radio_data) \div (radio_data.gateways + radio_data.nan_only_gateways)
         ELSE Rows(radio_data)]

\* analyze_fec_packet_flow: packet_rates
packet_rates(packets_per_hour, expected_packets_per_hour) ==
    [actual_rate |-> packets_per_hour,
     expected_rate |-> expected_packets_per_hour,
     rate_ratio |-> IF FLt(FZero, expected_packets_per_hour)
                    THEN FDiv(packets_per_hour, expected_packets_per_hour) ELSE FZero]

\* analyze_fec_packet_flow: the entry of one generation size
generation_entry(estimated_unique_packets, gen_size, time_span_hours) ==
    [possible_complete_generations |-> estimated_unique_packets \div gen_size,
     time_per_generation_hours |-> FDivInt(gen_size * PACKET_INTERVAL, 3600),
     would_complete_in_timespan |->
         /\ estimated_unique_packets \div gen_size > 0
         /\ time_span_hours # FNaN
         /\ FLe(FDivInt(gen_size * PACKET_INTERVAL, 3600), time_span_hours)]

generation_analysis(stats) ==
    [gen_size \in {EXPECTED_GENERATION_SIZES[i] : i \in DOMAIN EXPECTED_GENERATION_SIZES} |->
        generation_entry(stats.estimated_unique_packets, gen_size, stats.time_span_hours)]

\* the largest size that allows a complete generation, or None
optimal_generation_size(generations) ==
    IF \E size \in DOMAIN generations : generations[size].possible_complete_generations > 0
    THEN <<MaxOf({size \in DOMAIN generations :
                     generations[size].possible_complete_generations > 0})>>
    ELSE <<>>

\* analyze_fec_packet_flow, from basic_stats on
packet_flow(stats) ==
    (IF stats.time_span_hours # FNaN /\ FLt(FZero, stats.time_span_hours)
     THEN [packet_rates |->
              packet_rates(FDiv(FromInt(stats.estimated_unique_packets),
                                stats.time_span_hours),
                           FDivInt(3600, PACKET_INTERVAL))]
     ELSE EmptyDict)
    @@ [basic_stats |-> stats,
        generation_analysis |-> generation_analysis(stats),
        optimal_generation_size |-> optimal_generation_size(generation_analysis(stats))]

\* analyze_fec_packet_flow: the analysis it returns, or the exception it raises
analyze_fec_packet_flow(d) ==
    IF d.radio_measurements = <<>> THEN [raised |-> None, value |-> EmptyDict]
    ELSE IF ~({"DeviceAddr", "GatewayID", "Time"} \subseteq d.radio_measurements[1].cols)
         THEN [raised |-> "KeyError"]
    ELSE [raised |-> None, value |-> packet_flow(basic_stats(d.radio_measurements[1]))]

\* analyze_fec_performance_deep: the time series part (column TimeHours)
time_series(times, measurement_count) ==
    [time_span |-> FSub(FDivInt(MaxOf(times), 3600), FDivInt(MinOf(times), 3600)),
     measurement_count |-> measurement_count,
     measurement_frequency |->
         IF measurement_count > 1
         THEN FDivFI(FSub(FDivInt(MaxOf(times), 3600), FDivInt(MinOf(times), 3600)),
                     measurement_count)
         ELSE FZero]

\* analyze_fec_performance_deep: analysis['latest']
latest_performance(latest) ==
    [physical_der_percent |-> FMulInt(latest.PhysicalDER, 100),
     application_der_percent |-> FMulInt(latest.ApplicationDER, 100),
     improvement_factor |-> latest.FecImprovement,
     generations_processed |-> latest.GenerationsProcessed,
     packets_recovered |-> latest.PacketsRecovered]

\* analyze_fec_performance_deep: target_achievement
target_achievement(application_der_percent) ==
    [meets_target |-> FLt(application_der_percent, FromInt(PAPER_TARGET_DER)),
     target_gap |-> FSub(application_der_percent, FromInt(PAPER_TARGET_DER)),
     improvement_needed |->
         IF FLt(FZero, application_der_percent)
         THEN FDiv(FromInt(PAPER_TARGET_DER), application_der_percent)
         ELSE FInf]

\* analyze_fec_performance_deep, for a frame with rows and all its columns.
\* The trends are least-squares slopes (np.polyfit) that nothing else
\* reads: only their keys are kept.
performance(fec_data) ==
    (IF "Time" \in fec_data.cols
     THEN time_series({fec_data.rows[i].Time : i \in 1..Len(fec_data.rows)},
                      Len(fec_data.rows))
     ELSE EmptyDict)
    @@ (IF Len(fec_data.rows) > 1
        THEN [trends |-> {"physical_der_slope", "application_der_slope",
                          "improvement_slope"}]
        ELSE EmptyDict)
    @@ [latest |-> latest_performance(fec_data.rows[Len(fec_data.rows)]),
        target_achievement |->
            target_achievement(
                FMulInt(fec_data.rows[Len(fec_data.rows)].ApplicationDER, 100))]

\* analyze_fec_performance_deep: the analysis it returns or the exception
\* it raises, and the frame it leaves behind (it adds the column TimeHours
\* to the frame held by data)
analyze_fec_performance_deep(d) ==
    IF d.fec_performance = <<>>
    THEN [raised |-> None, value |-> EmptyDict, fec_performance |-> <<>>]
    ELSE IF Len(d.fec_performance[1].rows) = 0
    THEN [raised |-> None, value |-> EmptyDict, fec_performance |-> d.fec_performance]
    ELSE IF ~(FecColumns \ {"Time"} \subseteq d.fec_performance[1].cols)
    THEN [raised |-> "KeyError",
          fec_performance |->
              IF "Time" \in d.fec_performance[1].cols
              THEN <<[d.fec_performance[1] EXCEPT !.cols = @ \cup {"TimeHours"}]>>
              ELSE d.fec_performance]
    ELSE [raised |-> None,
          value |-> performance(d.fec_performance[1]),
          fec_performance |->
              IF "Time" \in d.fec_performance[1].cols
              THEN <<[d.fec_performance[1] EXCEPT !.cols = @ \cup {"TimeHours"}]>>
              ELSE d.fec_performance]

\* dict.get(key, default)
Get(dict, key, default) == IF key \in DOMAIN dict THEN dict[key] ELSE default

\* diagnose_fec_issues_comprehensive, checks 2 to 6: the issues, and the
\* generation size its recommendations name (or None)
issues_of(packet, latest) ==
    [issues |->
        (IF Get(latest, "generations_processed", 0) = 0
         THEN {"CRITICAL: Zero FEC generations processed"}
              \cup (IF "optimal_generation_size" \notin DOMAIN packet THEN {}
                    ELSE IF packet.optimal_generation_size = <<>>
                    THEN {"ROOT CAUSE: Simulation too short"}
                    ELSE {"LIKELY CAUSE: Generation size too large"})
         ELSE IF Get(latest, "generations_processed", 0) < 3
         THEN {"WARNING: Very few generations processed"}
         ELSE {})
        \cup (IF /\ Get(latest, "packets_recovered", 0) = 0
                 /\ Get(latest, "generations_processed", 0) > 0
              THEN {"CRITICAL: zero packets recovered"} ELSE {})
        \cup (IF ~FLt(Get(latest, "application_der_percent", F100),
                      FromInt(PAPER_TARGET_DER))
              THEN {"TARGET MISSED"}
                   \cup (IF FLt(Get(latest, "improvement_factor", F1), FDivInt(11, 10))
                         THEN {"POOR FEC EFFECTIVENESS"} ELSE {})
              ELSE {})
        \cup (IF /\ "basic_stats" \in DOMAIN packet
                 /\ FLt(Get(packet.basic_stats, "actual_rate", FZero),
                        FMul(FDivInt(3600, PACKET_INTERVAL), FDivInt(8, 10)))
              THEN {"LOW PACKET RATE"} ELSE {})
        \cup (IF "generation_analysis" \notin DOMAIN packet THEN {}
              ELSE IF optimal_generation_size(packet.generation_analysis) = <<>>
              THEN {"CONFIGURATION ERROR: No generation size works"}
              ELSE IF optimal_generation_size(packet.generation_analysis)[1] < 32
              THEN {"SIMULATION TOO SHORT"}
              ELSE {}),
     generation_size |->
        IF /\ Get(latest, "generations_processed", 0) = 0
           /\ "optimal_generation_size" \in DOMAIN packet
        THEN IF packet.optimal_generation_size = <<>>
             THEN <<8>> ELSE packet.optimal_generation_size
        ELSE <<>>]

diagnose_fec_issues_comprehensive(d, packet, perf) ==
    IF d.fec_performance = <<>>
    THEN [issues |-> {"CRITICAL: No FEC performance data"}, generation_size |-> <<>>]
    ELSE issues_of(packet, Get(perf, "latest", EmptyDict))

\* create_comprehensive_fec_plots: the exception it raises, or None.  A
\* frame of fec_performance.csv without TimeHours is divided by its Time.
create_comprehensive_fec_plots(d) ==
    IF /\ d.radio_measurements # <<>>
       /\ ~({"Time", "GatewayID"} \subseteq d.radio_measurements[1].cols)
    THEN "KeyError"
    ELSE IF /\ d.fec_performance # <<>>
            /\ Len(d.fec_performance[1].rows) > 0
            /\ ~(FecColumns \ {"Time"} \subseteq d.fec_performance[1].cols
                 /\ {"Time", "TimeHours"} \cap d.fec_performance[1].cols # {})
    THEN "KeyError"
    ELSE None

\* generate_detailed_fec_report: the verdicts and the generation size
\* written to detailed_fec_report.txt (None where nothing is written)
generate_detailed_fec_report(packet, perf) ==
    [executive_summary |->
        IF "latest" \notin DOMAIN perf THEN <<>>
        ELSE IF FLt(perf.latest.application_der_percent, FromInt(PAPER_TARGET_DER))
        THEN <<"SUCCESS">>
        ELSE IF perf.latest.generations_processed > 0 THEN <<"PARTIAL SUCCESS">>
        ELSE <<"FAILURE">>,
     recommended_generation_size |->
        IF "generation_analysis" \notin DOMAIN packet THEN <<>>
        ELSE Get(packet, "optimal_generation_size", <<>>),
     target |->
        IF "latest" \notin DOMAIN perf THEN <<>>
        ELSE IF FLe(FSub(perf.latest.application_der_percent, FromInt(PAPER_TARGET_DER)),
                    FZero)
        THEN <<"Target achieved">>
        ELSE <<"Target missed">>]

\* main, the final summary: the message printed and the generation size
\* it names as the solution (None where none is printed)
actionable_insights(packet, perf) ==
    IF "latest" \notin DOMAIN perf
    THEN [message |-> <<>>, generation_size |-> <<>>]
    ELSE IF perf.latest.generations_processed = 0
    THEN [message |-> <<"PRIMARY ISSUE: No FEC generations completed">>,
          generation_size |->
              IF "optimal_generation_size" \notin DOMAIN packet THEN <<>>
              ELSE IF packet.optimal_generation_size # <<>>
              THEN packet.optimal_generation_size
              ELSE <<8>>]
    ELSE IF perf.latest.packets_recovered = 0
    THEN [message |-> <<"PRIMARY ISSUE: FEC not recovering packets">>,
          generation_size |-> <<>>]
    ELSE IF ~FLt(perf.latest.application_der_percent, FromInt(PAPER_TARGET_DER))
    THEN [message |-> <<"ALMOST THERE">>, generation_size |-> <<>>]
    ELSE [message |-> <<"SUCCESS">>, generation_size |-> <<>>]

\* the input files of the FEC analysis
FecFile(status, cols, rows) == [status |-> status, frame |-> FecFrame(cols, rows)]

\* decimal fractions of the DER columns, and of the improvement column
DerValues == {<<0, 1>>, <<1, 128>>, <<1, 100>>, <<2, 100>>, <<1, 4>>, <<1, 2>>}
Improvements == {<<0, 1>>, <<1, 1>>, <<11, 10>>, <<2, 1>>, <<4, 1>>}

\* rssi_snr_measurements.csv: numbers of rows around the generation sizes,
\* numbers of gateways, time spans around 8 * 144 s and 128 * 144 s
FecRadioFiles ==
    {Absent, Unreadable}
    \cup {Loadable(Measured(Columns, [d \in {1} |-> n], [d \in {1} |-> 0],
                            g, 0, span, 80, 3, 6)) :
             n \in {0, 7, 8, 24, 128, 200}, g \in {0, 1, 2, 8},
             span \in {0, 1151, 1152, 3600, 18432}}
    \cup {Loadable(Typical(Columns \ {c}, n)) :
             c \in {"Time", "DeviceAddr", "GatewayID"}, n \in {0, 24}}
    \cup {Loadable(Measured(Columns, [d \in {1} |-> 2], [d \in {1} |-> 2],
                            1, 1, 0, 80, 3, 6))}

FecPerformanceFiles ==
    {FecFile("absent", {}, <<>>), FecFile("unreadable", {}, <<>>),
     FecFile("ok", FecColumns, <<>>)}
    \cup {FecFile("ok", FecColumns, <<FecRecord(3600, p, a, f, g, r)>>) :
             p \in DerValues, a \in DerValues, f \in Improvements,
             g \in {0, 1, 3}, r \in {0, 1}}
    \cup {FecFile("ok", FecColumns \ {c}, rows) :
             c \in FecColumns,
             rows \in {<<>>, <<FecRecord(0, <<1, 4>>, <<1, 100>>, <<2, 1>>, 3, 1),
                               FecRecord(3600, <<1, 2>>, <<1, 128>>, <<4, 1>>, 3, 1)>>}}
    \cup {FecFile("ok", FecColumns,
                  <<FecRecord(0, <<1, 4>>, <<1, 4>>, <<1, 1>>, 0, 0),
                    FecRecord(t, <<1, 2>>, a, <<2, 1>>, g, 1)>>) :
             t \in {0, 3600}, a \in DerValues, g \in {0, 3}}

TypicalRadioFile == Loadable(Typical(Columns, 200))
TypicalFecFile ==
    FecFile("ok", FecColumns, <<FecRecord(3600, <<1, 4>>, <<1, 128>>, <<2, 1>>, 3, 1)>>)

FecInputs ==
    {[radio_measurements |-> rf, fec_performance |-> ff, global_performance |-> tf] :
        rf \in FecRadioFiles, ff \in {TypicalFecFile}, tf \in {"ok"}}
    \cup {[radio_measurements |-> rf, fec_performance |-> ff, global_performance |-> tf] :
        rf \in {TypicalRadioFile}, ff \in FecPerformanceFiles, tf \in {"ok"}}
    \cup {[radio_measurements |-> rf, fec_performance |-> ff, global_performance |-> tf] :
        rf \in {Absent, Unreadable, TypicalRadioFile,
                Loadable(Typical(Columns, 7)), Loadable(Typical(Columns, 0))},
        ff \in {FecFile("absent", {}, <<>>), FecFile("unreadable", {}, <<>>),
                FecFile("ok", FecColumns, <<>>), TypicalFecFile,
                FecFile("ok", FecColumns,
                        <<FecRecord(3600, <<1, 4>>, <<1, 4>>, <<1, 1>>, 0, 0)>>)},
        tf \in {"absent", "unreadable", "ok"}}

NoDiagnosis == [issues |-> {}, generation_size |-> <<>>]
NoReport == [executive_summary |-> <<>>, recommended_generation_size |-> <<>>,
             target |-> <<>>]
NoInsights == [message |-> <<>>, generation_size |-> <<>>]

\* the FEC analysis before main is called on the given files
FecStart(in, at) ==
    /\ fec_files = in
    /\ fec_pc = at
    /\ data = EmptyDict
    /\ file_status = EmptyDict
    /\ packet_analysis = EmptyDict
    /\ performance_analysis = EmptyDict
    /\ diagnosis = NoDiagnosis
    /\ report = NoReport
    /\ final_summary = NoInsights
    /\ fec_raised = None

\* main: data, file_status = load_all_data()
LoadAllData ==
    /\ fec_pc = "start"
    /\ data' = [k \in DOMAIN fec_files |-> load_all_data(fec_files)[k].value]
    /\ file_status' = [k \in DOMAIN fec_files |-> load_all_data(fec_files)[k].status]
    /\ fec_pc' = "loaded"
    /\ UNCHANGED <<fec_files, packet_analysis, performance_analysis, diagnosis, report,
                   final_summary, fec_raised, anVars, gtVars>>

\* main: packet_analysis = analyze_fec_packet_flow(data); an exception leaves main
PacketFlowAnalysed(r) ==
    IF r.raised # None
    THEN /\ fec_raised' = r.raised
         /\ fec_pc' = "crashed"
         /\ UNCHANGED packet_analysis
    ELSE /\ packet_analysis' = r.value
         /\ fec_pc' = "packet_flow"
         /\ UNCHANGED fec_raised

AnalyzeFecPacketFlow ==
    /\ fec_pc = "loaded"
    /\ PacketFlowAnalysed(analyze_fec_packet_flow(data))
    /\ UNCHANGED <<fec_files, data, file_status, performance_analysis, diagnosis, report,
                   final_summary, anVars, gtVars>>

\* main: performance_analysis = analyze_fec_performance_deep(data)
PerformanceAnalysed(r) ==
    /\ data' = [data EXCEPT !.fec_performance = r.fec_performance]
    /\ IF r.raised # None
       THEN /\ fec_raised' = r.raised
            /\ fec_pc' = "crashed"
            /\ UNCHANGED performance_analysis
       ELSE /\ performance_analysis' = r.value
            /\ fec_pc' = "performance"
            /\ UNCHANGED fec_raised

AnalyzeFecPerformanceDeep ==
    /\ fec_pc = "packet_flow"
    /\ PerformanceAnalysed(analyze_fec_performance_deep(data))
    /\ UNCHANGED <<fec_files, file_status, packet_analysis, diagnosis, report,
                   final_summary, anVars, gtVars>>

\* main: issues, recommendations = diagnose_fec_issues_comprehensive(...)
DiagnoseFecIssuesComprehensive ==
    /\ fec_pc = "performance"
    /\ diagnosis' = diagnose_fec_issues_comprehensive(data, packet_analysis,
                                                      performance_analysis)
    /\ fec_pc' = "diagnosed"
    /\ UNCHANGED <<fec_files, data, file_status, packet_analysis, performance_analysis,
                   report, final_summary, fec_raised, anVars, gtVars>>

\* main: create_comprehensive_fec_plots(...)
FecPlotted(e) ==
    IF e # None
    THEN fec_raised' = e /\ fec_pc' = "crashed"
    ELSE fec_pc' = "plotted" /\ UNCHANGED fec_raised

CreateComprehensiveFecPlots ==
    /\ fec_pc = "diagnosed"
    /\ FecPlotted(create_comprehensive_fec_plots(data))
    /\ UNCHANGED <<fec_files, data, file_status, packet_analysis, performance_analysis,
                   diagnosis, report, final_summary, anVars, gtVars>>

\* main: generate_detailed_fec_report(...)
GenerateDetailedFecReport ==
    /\ fec_pc = "plotted"
    /\ report' = generate_detailed_fec_report(packet_analysis, performance_analysis)
    /\ fec_pc' = "reported"
    /\ UNCHANGED <<fec_files, data, file_status, packet_analysis, performance_analysis,
                   diagnosis, final_summary, fec_raised, anVars, gtVars>>

\* main: the final summary
ActionableInsights ==
    /\ fec_pc = "reported"
    /\ final_summary' = actionable_insights(packet_analysis, performance_analysis)
    /\ fec_pc' = "done"
    /\ UNCHANGED <<fec_files, data, file_status, packet_analysis, performance_analysis,
                   diagnosis, report, fec_raised, anVars, gtVars>>

\* one run of one of the three scripts, on one set of input files
Init ==
    \/ /\ \E in \in GroundTruthInputs : GroundTruthStart(in, "start")
       /\ AnalyzerStart(<<NoFile, NoFile, NoFile>>, "idle")
       /\ FecStart(EmptyDict, "idle")
    \/ /\ \E in \in AnalyzerInputs : AnalyzerStart(in, "start")
       /\ GroundTruthStart(<<<<Absent, Absent, Absent>>, "absent", NoLog>>, "idle")
       /\ FecStart(EmptyDict, "idle")
    \/ /\ \E in \in FecInputs : FecStart(in, "start")
       /\ GroundTruthStart(<<<<Absent, Absent, Absent>>, "absent", NoLog>>, "idle")
       /\ AnalyzerStart(<<NoFile, NoFile, NoFile>>, "idle")

Next ==
    \/ LoadRadioData
    \/ LoadAdrData
    \/ ExtractPacketCounts
    \/ CleanData
    \/ Validate
    \/ CheckValidated
    \/ ValidateDataConsistency
    \/ PlotEnhancedPerformanceAnalysis
    \/ PlotAdroptEvolution
    \/ PlotEnhancedFadingValidation
    \/ PlotGatewayDiversityAnalysis
    \/ GenerateResearchSummary
    \/ PlotFadingDistribution
    \/ ParseFiles
    \/ CalculateErrorRates
    \/ DisplayErrorAnalysis
    \/ LoadAllData
    \/ AnalyzeFecPacketFlow
    \/ AnalyzeFecPerformanceDeep
    \/ DiagnoseFecIssuesComprehensive
    \/ CreateComprehensiveFecPlots
    \/ GenerateDetailedFecReport
    \/ ActionableInsights

Spec == Init /\ [][Next]_vars

\* a newly constructed GroundTruthData record used on its own
RecordInit ==
    /\ GroundTruthStart(<<<<Absent, Absent, Absent>>, "absent", NoLog>>, "record")
    /\ AnalyzerStart(<<NoFile, NoFile, NoFile>>, "idle")
    /\ FecStart(EmptyDict, "idle")

RecordNext ==
    \/ ReplaceRadioData
    \/ ValidateRecord

RecordSpec == RecordInit /\ [][RecordNext]_vars

----------------------------------------------------------------------------
(* The properties of the ground-truth script *)

\* the run of the ground-truth script has left establish_ground_truth
Established ==
    pc \in {"established", "cannot_proceed", "consistency", "performance",
            "adropt_evolution", "fading_validation", "gateway_diversity",
            "research_summary", "fading_distribution", "complete"}

\* the candidate file of the given name can be read as a table
Available(name) ==
    \E i \in 1..Len(RADIO_FILES) :
        RADIO_FILES[i] = name /\ radio_files[i].status = "ok"

\* no candidate carries both the signal-strength and the signal-to-noise column
NoCandidateQualifies ==
    \A i \in 1..Len(radio_files) :
        radio_files[i].status = "ok"
            => ~({"RSSI_dBm", "SNR_dB"} \subseteq radio_files[i].frame.cols)

\* C1: whenever a radio source was loaded and is not empty, main goes on
\* past the validation to the metrics and report steps whatever the quality
\* verdict is; only an absent or empty source makes main stop.
C1_NonEmptySourceProceeds ==
    pc = "cannot_proceed" => ~gt.has_radio_data \/ Rows(gt.radio_data) = 0

\* C2: when no candidate has both the signal-strength and the
\* signal-to-noise column, or no candidate exists, the selection fails, the
\* record stays not validated, no metric, plot or report function is
\* executed, and main ends without an unhandled exception.
C2_NoQualifiedCandidateFails ==
    (pc # "idle" /\ NoCandidateQualifies)
        => /\ ~gt.has_radio_data
           /\ ~gt.validated
           /\ executed = <<>>
           /\ raised = None

\* C3: the source establish_ground_truth stores always has the
\* signal-strength and the signal-to-noise column; a readable candidate
\* that lacks either is passed over for the next one.
C3_StoredSourceHasSignalColumns ==
    gt.has_radio_data => {"RSSI_dBm", "SNR_dB"} \subseteq gt.radio_data.cols

\* C4, as the spec states it: the selector takes the first present and
\* loadable candidate of a fixed order, and takes radio_measurements.csv
\* whenever that file and rssi_snr_measurements.csv are both available.
C4_PrefersRadioMeasurements ==
    (pc \notin {"idle", "start"}
        /\ Available("radio_measurements.csv")
        /\ Available("rssi_snr_measurements.csv"))
        => gt.data_source_name = "radio_measurements.csv"

\* C4, amended: the selector stores exactly the first loadable candidate of
\* the order rssi_snr_measurements.csv, radio_measurements.csv,
\* radio_measurement_summary.csv (none when no candidate is loadable), so
\* that it takes rssi_snr_measurements.csv whenever that file and
\* radio_measurements.csv are both available.
C4_FirstLoadableInFixedOrder ==
    pc \notin {"idle", "start"}
        => /\ Available("rssi_snr_measurements.csv")
                => gt.data_source_name = "rssi_snr_measurements.csv"
           /\ (~Available("rssi_snr_measurements.csv")
                  /\ Available("radio_measurements.csv"))
                => gt.data_source_name = "radio_measurements.csv"
           /\ (~Available("rssi_snr_measurements.csv")
                  /\ ~Available("radio_measurements.csv")
                  /\ Available("radio_measurement_summary.csv"))
                => gt.data_source_name = "radio_measurement_summary.csv"
           /\ (~Available("rssi_snr_measurements.csv")
                  /\ ~Available("radio_measurements.csv")
                  /\ ~Available("radio_measurement_summary.csv"))
                => ~gt.has_radio_data /\ gt.data_source_name = ""
           /\ gt.has_radio_data
                => \E i \in 1..Len(radio_files) :
                      /\ radio_files[i].status = "ok"
                      /\ gt.radio_data.cols = radio_files[i].frame.cols

\* C4: both files were available and the rssi_snr one was stored
C4_BothAvailable ==
    /\ pc = "load_adr"
    /\ Available("radio_measurements.csv")
    /\ Available("rssi_snr_measurements.csv")
    /\ gt.data_source_name = "rssi_snr_measurements.csv"

----------------------------------------------------------------------------
(* The properties of the metrics *)

\* calculate_error_rates has been called
Calculating == an_pc \in {"calculated", "calculate_raised", "displayed", "display_raised"}

\* calculate_error_rates has returned its analysis
Calculated_ == an_pc \in {"calculated", "displayed", "display_raised"}

\* C5: a metrics function given an empty or absent input returns zero or
\* empty results and does not raise: calculate_error_rates, given the empty
\* table the parser returns for a missing or empty globalPerformance.txt,
\* returns an analysis whose network summary and temporal list are empty.
C5_EmptyTableGivesEmptyAnalysis ==
    (Calculating /\ global_df = <<>>)
        => /\ an_pc # "calculate_raised"
           /\ IsEmptyDict(error_analysis.network_summary)
           /\ error_analysis.temporal_analysis = <<>>

\* pdr + per == 100, and pdr == 0 when nothing was received, for 0 <= received <= sent, sent > 0
RatesAddUp(sent, received, pdr, per) ==
    (sent > 0 /\ 0 <= received /\ received <= sent)
        => /\ FAdd(pdr, per) = F100
           /\ received = 0 => pdr = FZero
           /\ (sent = 1000 /\ received = 950)
                  => pdr = FromInt(95) /\ per = FromInt(5)

\* C6: for every sent > 0 and 0 <= received <= sent the delivery and error
\* rates add up to exactly 100 and the delivery rate is 0 when nothing was
\* received (1000 sent, 950 received: 95 and 5); at network level and for
\* the per-device rates of the ground-truth script, plotted and reported.
C6_RatesAddUpTo100 ==
    /\ Calculated_ =>
          RatesAddUp(global_df[Len(global_df)].packets_sent,
                     global_df[Len(global_df)].packets_received,
                     error_analysis.network_summary.network_pdr,
                     error_analysis.network_summary.network_per)
    /\ \A d \in DOMAIN device_pdrs :
          RatesAddUp(gt.packets_sent_per_device[d], gt.packets_received_per_device[d],
                     device_pdrs[d], device_pers[d])
    /\ \A d \in DOMAIN summary_rates :
          RatesAddUp(gt.packets_sent_per_device[d], gt.packets_received_per_device[d],
                     summary_rates[d].pdr, summary_rates[d].per)

\* C6: the documented network scenario was analysed, and a device of the
\* ground-truth script that received part of what it sent was plotted
C6_ScenarioAnalysed ==
    \/ /\ an_pc = "calculated"
       /\ global_df[Len(global_df)].packets_sent = 1000
       /\ global_df[Len(global_df)].packets_received = 950
       /\ error_analysis.network_summary.network_pdr = FromInt(95)
    \/ /\ pc = "complete"
       /\ \E d \in DOMAIN device_pdrs :
             /\ gt.packets_sent_per_device[d] = 7
             /\ gt.packets_received_per_device[d] = 3
             /\ FAdd(device_pdrs[d], device_pers[d]) = F100

\* C7: a device whose sent / attempt count is 0 is reported with delivery
\* rate 0 and error rate 100, by the analyzer and by the ground-truth
\* script; a device without transmissions never has a non-zero delivery rate.
C7_NoTransmissionsNoDelivery ==
    /\ Calculated_ =>
          \A d \in DOMAIN error_analysis.per_device :
              error_analysis.per_device[d].total_attempts = 0
                  => /\ error_analysis.per_device[d].packet_delivery_rate = FZero
                     /\ error_analysis.per_device[d].packet_error_rate = F100
    /\ \A d \in DOMAIN device_pdrs :
          gt.packets_sent_per_device[d] = 0
              => device_pdrs[d] = FZero /\ device_pers[d] = F100

\* success_rate + interference_rate + sensitivity_error_rate, as Python adds them
RateSum(e) == FAdd(FAdd(e.success_rate, e.interference_rate), e.sensitivity_error_rate)

\* 2^-44: above the rounding error of the three rates and of their sum
Tolerance == FMul(FDivInt(1, 4194304), FDivInt(1, 4194304))

RatesWithinTolerance(e) ==
    /\ e.total_processed = 0
          => /\ e.success_rate = FZero
             /\ e.interference_rate = FZero
             /\ e.sensitivity_error_rate = FZero
    /\ e.total_processed > 0
          => /\ FLe(RateSum(e), FAdd(F100, Tolerance))
             /\ e.packets_no_receivers = 0
                   => FLe(FAbs(FSub(RateSum(e), F100)), Tolerance)
             /\ e.packets_no_receivers > 0
                   => FLt(RateSum(e), FSub(F100, Tolerance))

RateOf(count, total) == FMulInt(FDivInt(count, total), 100)

\* C9: for each gateway total_processed is received + interfered +
\* under_sensitivity + no_receivers of its latest row, and each of the
\* three rates is its count / total_processed * 100 (80, 10, 5, 5 give
\* total_processed 100 and success rate 80).
C9_TotalAndRates ==
    Calculated_ =>
        \A g \in DOMAIN error_analysis.gateway_analysis :
            LET e == error_analysis.gateway_analysis[g]
                rows == SelectSeq(phy_df, LAMBDA r : r.gateway_id = g)
                latest == rows[Len(rows)]
                total == latest.packets_received + latest.packets_interfered
                             + latest.packets_under_sensitivity
                             + latest.packets_no_more_receivers
            IN  /\ e.total_processed = total
                /\ total > 0
                      => /\ e.success_rate = RateOf(latest.packets_received, total)
                         /\ e.interference_rate = RateOf(latest.packets_interfered, total)
                         /\ e.sensitivity_error_rate
                                = RateOf(latest.packets_under_sensitivity, total)
                /\ (latest.packets_received = 80 /\ latest.packets_interfered = 10
                        /\ latest.packets_under_sensitivity = 5
                        /\ latest.packets_no_more_receivers = 5)
                      => e.total_processed = 100 /\ e.success_rate = FromInt(80)

\* C9: the documented gateway scenario was analysed
C9_ScenarioAnalysed ==
    /\ an_pc = "calculated"
    /\ \E g \in DOMAIN error_analysis.gateway_analysis :
          /\ error_analysis.gateway_analysis[g].packets_received = 80
          /\ error_analysis.gateway_analysis[g].packets_no_receivers = 5
          /\ error_analysis.gateway_analysis[g].total_processed = 100
          /\ error_analysis.gateway_analysis[g].success_rate = FromInt(80)

\* every PHY row has all four counters at zero
AllCountersZero ==
    /\ phy_df # <<>>
    /\ \A i \in 1..Len(phy_df) :
          /\ phy_df[i].packets_received = 0
          /\ phy_df[i].packets_interfered = 0
          /\ phy_df[i].packets_under_sensitivity = 0
          /\ phy_df[i].packets_no_more_receivers = 0

\* C10: a total_processed of zero is a case without data and never an
\* error: when PHY rows exist and all counters of every gateway are zero,
\* the gateway analysis and its aggregated summary complete without a
\* division by zero.
C10_ZeroTotalIsNoError ==
    AllCountersZero => an_raised # "ZeroDivisionError"

\* the distinct timestamps of the global performance table
Timestamps == {global_df[i].time : i \in 1..Len(global_df)}

\* entry e is the difference between the cumulative counters of a row at the
\* entry's timestamp and those of a row at the greatest smaller timestamp
\* (0 when there is no smaller timestamp)
PeriodSincePreceding(e) ==
    LET earlier == {t \in Timestamps : t < e.time}
    IN  \E i \in 1..Len(global_df) :
            /\ global_df[i].time = e.time
            /\ IF earlier = {}
               THEN /\ e.period_sent = global_df[i].packets_sent
                    /\ e.period_received = global_df[i].packets_received
               ELSE \E j \in 1..Len(global_df) :
                        /\ global_df[j].time = MaxOf(earlier)
                        /\ e.period_sent
                               = global_df[i].packets_sent - global_df[j].packets_sent
                        /\ e.period_received
                               = global_df[i].packets_received
                                     - global_df[j].packets_received

\* C11: calculate_error_rates emits exactly one temporal entry per distinct
\* timestamp, in non-decreasing timestamp order, with period_sent and
\* period_received the differences between the cumulative counters at that
\* timestamp and at the greatest smaller timestamp (0 for the first), for
\* any order of the rows of the table.
C11_TemporalEntriesInTimeOrder ==
    Calculated_ =>
        LET ta == error_analysis.temporal_analysis
        IN  /\ Len(ta) = Cardinality(Timestamps)
            /\ {ta[k].time : k \in 1..Len(ta)} = Timestamps
            /\ \A k \in 1..(Len(ta) - 1) : ta[k].time <= ta[k + 1].time
            /\ \A k \in 1..Len(ta) : PeriodSincePreceding(ta[k])

----------------------------------------------------------------------------
(* The properties of the FEC analysis *)

\* the span of the Time column of the loaded radio measurements, in seconds
TimeSpanSeconds == data.radio_measurements[1].time_span

\* C12: for every candidate generation size g, with the send interval of
\* 144 s and the observed time span T, possible_complete_generations of
\* analyze_fec_packet_flow is floor(T / (g * 144)), which is 0 whenever
\* T < g * 144 (a span of 3600 s: 0 for size 128, 3 for size 8).
C12_GenerationsFromTimeSpan ==
    ("generation_analysis" \in DOMAIN packet_analysis
        /\ packet_analysis.basic_stats.time_span_hours # FNaN)
        => \A g \in DOMAIN packet_analysis.generation_analysis :
              /\ packet_analysis.generation_analysis[g].possible_complete_generations
                     = TimeSpanSeconds \div (g * PACKET_INTERVAL)
              /\ TimeSpanSeconds < g * PACKET_INTERVAL
                     => packet_analysis.generation_analysis[g]
                            .possible_complete_generations = 0

\* the candidate sizes that yield at least one complete generation
Feasible ==
    {g \in DOMAIN packet_analysis.generation_analysis :
        packet_analysis.generation_analysis[g].possible_complete_generations > 0}

\* C13: the optimal generation size is the largest of the candidates 8, 16,
\* 32, 64, 128 that yields at least one complete generation; when no
\* candidate qualifies it is None, and no size is substituted for it in the
\* diagnosis, in the report or in the final summary.
C13_LargestFeasibleOrNone ==
    "generation_analysis" \in DOMAIN packet_analysis
        => /\ DOMAIN packet_analysis.generation_analysis = {8, 16, 32, 64, 128}
           /\ Feasible # {}
                 => packet_analysis.optimal_generation_size = <<MaxOf(Feasible)>>
           /\ Feasible = {}
                 => /\ packet_analysis.optimal_generation_size = <<>>
                    /\ diagnosis.generation_size = <<>>
                    /\ report.recommended_generation_size = <<>>
                    /\ final_summary.generation_size = <<>>

\* the last record of the loaded fec_performance.csv
LatestRecord == data.fec_performance[1].rows[Len(data.fec_performance[1].rows)]

\* x is y up to the rounding of a few floating-point operations (2^-44 of y)
CloseTo(x, y) == FLe(FAbs(FSub(x, y)), FMul(Tolerance, FAbs(y)))

\* C14: for the latest FEC record the reported improvement factor is
\* physical_der / application_der whenever application_der > 0; when
\* application_der is 0 nothing divides by it, the target counts as met,
\* and meets_target is true exactly when the application DER is below 1%.
C14_ImprovementIsRatio ==
    /\ fec_raised # "ZeroDivisionError"
    /\ "latest" \in DOMAIN performance_analysis
          => /\ FLt(FZero, LatestRecord.ApplicationDER)
                   => CloseTo(FMul(performance_analysis.latest.improvement_factor,
                                   LatestRecord.ApplicationDER),
                              LatestRecord.PhysicalDER)
             /\ LatestRecord.ApplicationDER = FZero
                   => /\ performance_analysis.target_achievement.meets_target
                      /\ report.target \in {<<>>, <<"Target achieved">>}
             /\ performance_analysis.target_achievement.meets_target
                   <=> FLt(FMulInt(LatestRecord.ApplicationDER, 100), F1)

----------------------------------------------------------------------------
(* The properties of the validator *)

\* the position of a band in an order of bands, from worst to best
RankIn(order, band) == CHOOSE i \in 1..Len(order) : order[i] = band

\* the five band checks in their best or second-best state, duration
\* accuracy having the two states 'Accurate' and 'Inaccurate'
BestOrSecondBest(q) ==
    {c \in 1..5 :
        \/ c = 1 /\ q.data_completeness \in {"Excellent", "Adequate"}
        \/ c = 2 /\ q.duration_accuracy \in {"Accurate", "Inaccurate"}
        \/ c = 3 /\ q.gateway_diversity \in {"Complete", "Good"}
        \/ c = 4 /\ q.channel_model_accuracy \in {"Excellent", "Good"}
        \/ c = 5 /\ q.adropt_functioning \in {"Active", "Limited"}}

\* the five band checks in a favourable state, the only favourable state of
\* duration accuracy being 'Accurate'
Favourable(q) == BestOrSecondBest(q) \ {c \in {2} : q.duration_accuracy # "Accurate"}

\* the confidence of n records of which good of the five checks count
ClaimedConfidence(n, good) ==
    IF n < 50 THEN "Very Low"
    ELSE IF n < 500 THEN "Low"
    ELSE IF 100 * good >= 80 * 5 THEN "High"
    ELSE IF 100 * good >= 60 * 5 THEN "Medium"
    ELSE "Low"

\* C15, as the spec states it: a record count below the floor forces the
\* overall confidence to 'Very Low' (fewer than 50 records) or 'Low' (fewer
\* than 500) whatever the other bands are; otherwise it is 'High' when at
\* least 80% of the five band checks are in their best or second-best
\* state, 'Medium' when at least 60% are, and 'Low' otherwise.
C15_ConfidenceFromBestOrSecondBest ==
    validate_result # "not called"
        => gt.quality.overall_confidence
               = ClaimedConfidence(Rows(gt.radio_data),
                                   Cardinality(BestOrSecondBest(gt.quality)))

\* C15, amended: for a source with at least one record, fewer than 50
\* records force 'Very Low' and fewer than 500 force 'Low'; otherwise the
\* confidence is 'High' when at least 80% of the five checks are favourable
\* (completeness Adequate or Excellent, duration Accurate, gateway diversity
\* Good or Complete, channel model Good or Excellent, activity Limited or
\* Active), 'Medium' when at least 60% are, 'Low' otherwise.  For a source
\* without records validate returns False and the confidence stays 'Unknown'.
C15_ConfidenceFromFavourableChecks ==
    /\ validate_result = "True"
          => /\ Rows(gt.radio_data) > 0
             /\ gt.quality.overall_confidence
                    = ClaimedConfidence(Rows(gt.radio_data),
                                        Cardinality(Favourable(gt.quality)))
    /\ validate_result = "False"
          => Rows(gt.radio_data) = 0 /\ gt.quality.overall_confidence = "Unknown"

\* C15: a source of 500 records or more whose duration is inaccurate and
\* whose four other checks are favourable was given the confidence 'High'
C15_FourOfFive ==
    /\ validate_result = "True"
    /\ Rows(gt.radio_data) >= 500
    /\ gt.quality.duration_accuracy = "Inaccurate"
    /\ Cardinality(Favourable(gt.quality)) = 4
    /\ gt.quality.overall_confidence = "High"

\* 4200 packets x 8 gateways x 0.9
ExpectedRecords == (4200 * 8 * 9) \div 10

\* the band of n records: below 1% of the expected count, below 10%, above 50%
ClaimedCompleteness(n) ==
    IF 100 * n < ExpectedRecords THEN "Very Limited"
    ELSE IF 10 * n < ExpectedRecords THEN "Limited"
    ELSE IF 2 * n > ExpectedRecords THEN "Excellent"
    ELSE "Adequate"

\* C16, as the spec states it: for every record count the completeness band
\* of validate is 'Very Limited' below 1% of the expected count (4200
\* packets x 8 gateways x 0.9), 'Limited' below 10%, 'Excellent' above 50%
\* and 'Adequate' otherwise.
C16_CompletenessBands ==
    validate_result # "not called"
        => gt.quality.data_completeness = ClaimedCompleteness(Rows(gt.radio_data))

\* C16, amended: for every record count of at least 1 the completeness band
\* of validate is 'Very Limited' below 1% of the expected count (4200
\* packets x 8 gateways x 0.9), 'Limited' below 10%, 'Excellent' above 50%
\* and 'Adequate' otherwise; for a source without records validate returns
\* False and the band stays 'Unknown'.
C16_CompletenessBandsOfRecords ==
    /\ validate_result = "True"
          => /\ Rows(gt.radio_data) > 0
             /\ gt.quality.data_completeness = ClaimedCompleteness(Rows(gt.radio_data))
    /\ validate_result = "False"
          => Rows(gt.radio_data) = 0 /\ gt.quality.data_completeness = "Unknown"

\* C16: a source just below 1% of the expected count was assessed
C16_JustBelowOnePercent ==
    /\ validate_result = "True"
    /\ Rows(gt.radio_data) = 302
    /\ gt.quality.data_completeness = "Very Limited"

CompletenessOrder == <<"Very Limited", "Limited", "Adequate", "Excellent">>

\* C17: the completeness band is monotonic in the record count: of two
\* record counts n < m, all else equal, the band of m is never a worse
\* category than the band of n (Very Limited < Limited < Adequate <
\* Excellent).
C17_CompletenessMonotonic ==
    (pc = "established" /\ validate_result = "True")
        => \A n \in RowCounts \ {0} :
              /\ n < Rows(gt.radio_data)
                    => RankIn(CompletenessOrder, data_completeness(n))
                           <= RankIn(CompletenessOrder, gt.quality.data_completeness)
              /\ n > Rows(gt.radio_data)
                    => RankIn(CompletenessOrder, data_completeness(n))
                           >= RankIn(CompletenessOrder, gt.quality.data_completeness)

\* C17: a source in a middle band was assessed, one record above a worse band
C17_BetweenBands ==
    /\ validate_result = "True"
    /\ Rows(gt.radio_data) = 3024
    /\ gt.quality.data_completeness = "Adequate"
    /\ data_completeness(3023) = "Limited"
    /\ data_completeness(15121) = "Excellent"

DiversityOrder == <<"Poor", "Good", "Complete">>

\* the band of g distinct gateways: the expected 8, at least 75% of them
ClaimedDiversity(g) ==
    IF g = 8 THEN "Complete" ELSE IF 100 * g >= 75 * 8 THEN "Good" ELSE "Poor"

\* C18: the gateway-diversity band ('Complete' for the expected 8 distinct
\* gateways, 'Good' for at least 75% of them, else 'Poor') is monotonic in
\* the number of distinct gateways: of two counts a < b the band of b is
\* never a worse category than the band of a (Poor < Good < Complete).
C18_DiversityMonotonic ==
    (validate_result = "True" /\ "GatewayID" \in gt.radio_data.cols)
        => /\ gt.quality.gateway_diversity = ClaimedDiversity(gt.radio_data.gateways)
           /\ \A a \in 0..MaxGateways :
                 a < gt.radio_data.gateways
                     => RankIn(DiversityOrder, ClaimedDiversity(a))
                            <= RankIn(DiversityOrder, gt.quality.gateway_diversity)

\* |std - 8.0| / 8.0 of a standard deviation, NaN for the deviation of
\* fewer than two values
RelativeError(df) ==
    IF df.fading_std_nan THEN FNaN
    ELSE FDiv(FAbs(FSub(FDivInt(df.fading_std_tenths, 10), FromInt(8))), FromInt(8))

\* the band of a relative error: below 10%, below 25%
ClaimedChannelBand(std_error) ==
    IF std_error # FNaN /\ FLt(std_error, FDivInt(10, 100)) THEN "Excellent"
    ELSE IF std_error # FNaN /\ FLt(std_error, FDivInt(25, 100)) THEN "Good"
    ELSE "Poor"

\* the channel-model band of a frame
ClaimedChannel(df) ==
    IF "Fading_dB" \in df.cols THEN ClaimedChannelBand(RelativeError(df)) ELSE "Unknown"

\* C19, as the spec states it: when the fading column is present the
\* channel-model band is 'Excellent' if |std - 8.0| / 8.0 < 10%, 'Good' if
\* < 25%, else 'Poor' (a deviation of 7.6 is 'Excellent'); when the column
\* is absent the band stays 'Unknown'.
C19_ChannelBands ==
    validate_result # "not called"
        => gt.quality.channel_model_accuracy = ClaimedChannel(gt.radio_data)

\* C19, amended: when the fading column is present and the source has at
\* least one record the channel-model band is 'Excellent' if
\* |std - 8.0| / 8.0 < 10%, 'Good' if < 25%, else 'Poor' (a deviation of
\* 7.6 is 'Excellent'); when the column is absent, or the source has no
\* records, the band stays 'Unknown'.
C19_ChannelBandsOfRecords ==
    /\ validate_result = "True"
          => /\ gt.quality.channel_model_accuracy = ClaimedChannel(gt.radio_data)
             /\ ("Fading_dB" \in gt.radio_data.cols
                    /\ ~gt.radio_data.fading_std_nan
                    /\ gt.radio_data.fading_std_tenths = 76)
                   => gt.quality.channel_model_accuracy = "Excellent"
    /\ validate_result = "False"
          => Rows(gt.radio_data) = 0 /\ gt.quality.channel_model_accuracy = "Unknown"

\* C19: a source whose fading deviates by 7.6 dB, a relative error of 5%,
\* was assessed
C19_Scenario ==
    /\ validate_result = "True"
    /\ "Fading_dB" \in gt.radio_data.cols
    /\ ~gt.radio_data.fading_std_nan
    /\ gt.radio_data.fading_std_tenths = 76
    /\ FLt(FDivInt(49, 1000), RelativeError(gt.radio_data))
    /\ FLt(RelativeError(gt.radio_data), FDivInt(51, 1000))
    /\ gt.quality.channel_model_accuracy = "Excellent"

----------------------------------------------------------------------------
(* The properties of the loaders *)

\* establish_ground_truth has returned, or gone past loading the radio data
RadioDataLoaded == pc \notin {"idle", "start"}

\* no candidate file could be loaded, and at least one of them exists with
\* content that cannot be parsed
OnlyMalformedCandidates ==
    /\ \A i \in 1..Len(radio_files) : radio_files[i].status # "ok"
    /\ \E i \in 1..Len(radio_files) : radio_files[i].status = "unreadable"

\* C20: every loader returns an explicit absent or empty result for a
\* missing file and does not raise, and reports malformed content as a
\* failure its caller can tell from 'absent': what it returns for a
\* malformed file is not what it returns for a missing one.
C20_MalformedIsNotAbsent ==
    /\ (RadioDataLoaded /\ \A i \in 1..Len(radio_files) : radio_files[i].status = "absent")
          => gt = GroundTruthData /\ raised = None
    /\ (RadioDataLoaded /\ OnlyMalformedCandidates)
          => gt # GroundTruthData
    /\ fec_pc = "loaded"
          => /\ fec_raised = None
             /\ \A k \in DOMAIN fec_files \ {"global_performance"} :
                   /\ fec_files[k].status = "absent" => data[k] = <<>>
                   /\ fec_files[k].status = "unreadable"
                         => <<data[k], file_status[k]>>
                                # <<read_csv(k, FecFile("absent", {}, <<>>)).value,
                                    read_csv(k, FecFile("absent", {}, <<>>)).status>>
             /\ fec_files.global_performance = "absent"
                   => data.global_performance = <<>>
             /\ fec_files.global_performance = "unreadable"
                   => <<data.global_performance, file_status.global_performance>>
                          # <<read_txt("absent").value, read_txt("absent").status>>
    /\ (an_pc = "parsed" /\ ~global_file.exists)
          => global_df = <<>> /\ an_raised = None

----------------------------------------------------------------------------
(* The properties of the parsers *)

\* the parsers have been called
ParsersCalled == an_pc # "idle" /\ an_pc # "start"

\* the records of the lines of a file that can be parsed, in their order
RecordsOf(file) == IF file.exists THEN wellformed(file.lines) ELSE <<>>

\* C21: in the positional text parsers a record that cannot be parsed (a
\* field that is no number, or fewer fields than the parser reads, such as
\* a Device line of exactly 9 fields) is skipped, all other records of the
\* file are returned, and no exception leaves the parser.
C21_UnparsableRecordsAreSkipped ==
    ParsersCalled
        => /\ an_pc # "parse_raised"
           /\ global_df = RecordsOf(global_file)
           /\ phy_df = RecordsOf(phy_file)
           /\ transmission_stats = device_stats(RecordsOf(stats_file))

----------------------------------------------------------------------------
(* The properties of a run of the ground-truth script *)

\* a run of the selection loop over the candidates from the i-th on: the
\* index of the candidate it stops at, 0 when it reaches the end
RECURSIVE SelectFrom(_, _)
SelectFrom(files, i) ==
    IF i > Len(files) THEN 0
    ELSE IF files[i].status = "ok" THEN i
    ELSE SelectFrom(files, i + 1)

\* what a run over the given candidates chooses: whether it has a source,
\* the name of the source, and the columns of the source
ChosenBy(files) ==
    IF SelectFrom(files, 1) = 0 THEN <<FALSE, "", {}>>
    ELSE <<TRUE, RADIO_FILES[SelectFrom(files, 1)],
           files[SelectFrom(files, 1)].frame.cols>>

----------------------------------------------------------------------------
(* The properties of the metrics functions *)

\* the tables load_all_data returned for the files of the run
LoadedTables == [k \in DOMAIN fec_files |-> load_all_data(fec_files)[k].value]

\* the FEC analysis has called analyze_fec_packet_flow
PacketFlowCalled == fec_pc \notin {"idle", "start", "loaded"}

\* C23: the metrics functions (calculate_error_rates,
\* analyze_fec_packet_flow, analyze_fec_performance_deep) are pure: once
\* they have been called the input tables have the rows and the columns
\* they had when they were loaded, and a second call on the same input
\* returns the result of the first.
C23_MetricsFunctionsArePure ==
    /\ an_pc = "calculated"
          => /\ global_df = RecordsOf(global_file)
             /\ phy_df = RecordsOf(phy_file)
             /\ error_analysis
                    = calculate_error_rates(transmission_stats, global_df, phy_df).value
    /\ PacketFlowCalled => data.radio_measurements = LoadedTables.radio_measurements
    /\ fec_pc = "packet_flow" => packet_analysis = analyze_fec_packet_flow(data).value
    /\ PacketFlowCalled => data.fec_performance = LoadedTables.fec_performance
    /\ fec_pc = "performance"
          => performance_analysis = analyze_fec_performance_deep(data).value

----------------------------------------------------------------------------
(* The frame of the validator *)

\* the bands validate() computes for a frame that has records
ComputedBands(df) ==
    LET q == assessed_quality(df)
    IN  [data_completeness |-> q.data_completeness,
         duration_accuracy |-> q.duration_accuracy,
         channel_model_accuracy |-> q.channel_model_accuracy,
         gateway_diversity |-> q.gateway_diversity,
         adropt_functioning |-> q.adropt_functioning,
         overall_confidence |-> overall_confidence(q, Rows(df))]

\* the bands that come with a warning
WarnedBands ==
    [data_completeness |-> {"Very Limited", "Limited"},
     duration_accuracy |-> {"Inaccurate"},
     channel_model_accuracy |-> {"Poor"},
     gateway_diversity |-> {"Good", "Poor"},
     adropt_functioning |-> {"Limited", "Inactive"},
     overall_confidence |-> {"Very Low"}]

\* the number of warnings validate() issues for a frame of the given
\* number of records and the given bands: one for each band of WarnedBands,
\* and one for the confidence 'Low' of a frame of fewer than 500 records
WarningsIssued(bands, rows) ==
    Cardinality({b \in DOMAIN WarnedBands : bands[b] \in WarnedBands[b]})
        + (IF 50 <= rows /\ rows < 500 THEN 1 ELSE 0)

\* the quality object holds the bands and the warnings computed for df
HeldOn(q, df) ==
    LET bands == ComputedBands(df)
    IN  /\ \A b \in DOMAIN WarnedBands : q[b] = bands[b]
        /\ Len(q.warnings) = WarningsIssued(bands, Rows(df))

\* C24: validate() leaves the measurement collection radio_data unchanged
\* on every path, and after it returns all the bands and warnings it
\* computed are held on the quality object of the record.
C24_ValidateKeepsDataAndHoldsBands ==
    [][Validate
          => /\ gt'.radio_data = gt.radio_data
             /\ gt'.has_radio_data = gt.has_radio_data
             /\ IF validate_result' = "True"
                THEN HeldOn(gt'.quality, gt.radio_data)
                ELSE /\ Len(gt'.quality.warnings) = 1
                     /\ \A b \in DOMAIN WarnedBands : gt'.quality[b] = "Unknown"]_vars

\* C24: validate() has returned True with three bands that come with a
\* warning, for a source of 50 records or more
C24_ThreeWarnings ==
    /\ validate_result = "True"
    /\ Rows(gt.radio_data) >= 50
    /\ Len(gt.quality.warnings) = 3
    /\ Cardinality({b \in DOMAIN WarnedBands : gt.quality[b] \in WarnedBands[b]}) >= 2

----------------------------------------------------------------------------
(* The order of the steps of the ground-truth script *)

\* the positions of the script before a step of the selection
\* (establish_ground_truth up to the validation), and before a step of the
\* metrics and the reports
SelectionSteps == {"start", "load_adr", "extract_counts", "clean"}
MetricSteps ==
    {"consistency", "performance", "adropt_evolution", "fading_validation",
     "gateway_diversity", "research_summary", "fading_distribution"}

\* the stage of a position: selection, validation, the test of main,
\* metrics and reports, the end
Stage(p) ==
    IF p \in SelectionSteps THEN 1
    ELSE IF p = "validate" THEN 2
    ELSE IF p = "established" THEN 3
    ELSE IF p \in MetricSteps THEN 4
    ELSE 5

\* the source of a record
SourceOf(self) == <<self.has_radio_data, self.radio_data>>

\* the steps go one way, and the metrics and the reports start only after
\* validate() has returned and marked the record valid; once the record is
\* marked valid no step writes a field of it
OneWay ==
    /\ Stage(pc') >= Stage(pc)
    /\ pc' \in MetricSteps => validate_result # "not called" /\ gt.validated
    /\ executed' # executed => pc \in MetricSteps
    /\ gt.validated => gt' = gt

\* C25: the steps of a run occur strictly in the order load and select,
\* validate, metrics and reports; no metrics or report step starts before
\* validate() has completed; the source of the record is written once, by
\* the step that selects it; after the record is marked valid no later
\* step writes any field of the record.
C25_OneWayAndWrittenOnce ==
    [][/\ OneWay
       /\ SourceOf(gt') # SourceOf(gt) => pc = "start"]_vars

\* C25, as the script does it: the source is bound by the step that selects
\* it and written once more by the cleaning step of establish_ground_truth,
\* which removes in place the records without a Time, before validate() is
\* called; the rest as stated.
C25_OneWayAndCleanedBeforeValidation ==
    [][/\ OneWay
       /\ SourceOf(gt') # SourceOf(gt)
             => \/ pc = "start"
                \/ /\ pc = "clean"
                   /\ SourceOf(gt') = <<TRUE, dropna_Time(gt.radio_data)>>]_vars

\* C25: a run that came to its end with a valid record whose source lost
\* records without a Time in the cleaning step
C25_CleanedRunComplete ==
    /\ pc = "complete"
    /\ gt.validated
    /\ Len(executed) >= 6
    /\ Rows(gt.radio_data) < Rows(radio_files[first_loadable(radio_files)].frame)

----------------------------------------------------------------------------
(* The properties of the tallies *)

\* the rows of a table with the greatest timestamp
LatestRows(df) ==
    {df[i] : i \in {j \in 1..Len(df) : \A k \in 1..Len(df) : df[k].time <= df[j].time}}

\* the rows of one gateway, in the order of the file
RowsOfGateway(g) == SelectSeq(phy_df, LAMBDA r : r.gateway_id = g)

\* C26: the network tally holds the counters of the row of the global
\* table with the greatest timestamp, and the tally of each gateway the
\* counters of the row of that gateway with the greatest timestamp, in
\* whatever order the rows stand in the input file.
C26_TalliesOfGreatestTimestamp ==
    an_pc = "calculated"
        => /\ global_df # <<>>
                 => \E r \in LatestRows(global_df) :
                       /\ error_analysis.network_summary.total_packets_sent
                              = r.packets_sent
                       /\ error_analysis.network_summary.total_packets_received
                              = r.packets_received
           /\ phy_df # <<>>
                 => \A g \in DOMAIN error_analysis.gateway_analysis :
                       \E r \in LatestRows(RowsOfGateway(g)) :
                          /\ error_analysis.gateway_analysis[g].packets_received
                                 = r.packets_received
                          /\ error_analysis.gateway_analysis[g].packets_interfered
                                 = r.packets_interfered
                          /\ error_analysis.gateway_analysis[g].packets_under_sensitivity
                                 = r.packets_under_sensitivity
                          /\ error_analysis.gateway_analysis[g].packets_no_receivers
                                 = r.packets_no_more_receivers

----------------------------------------------------------------------------
(* The verdicts of the FEC analysis *)

\* the FEC analysis has come to its end with a latest performance record
VerdictsGiven == fec_pc = "done" /\ "latest" \in DOMAIN performance_analysis

\* C27: for every application DER, the value of exactly 1% included, all
\* the verdicts on the target agree: meets_target, the absence of the
\* issue 'TARGET MISSED', the line of the executive summary and the line
\* 'Target achieved' or 'Target missed' of the report, and the final
\* message of main.
C27_TargetVerdictsAgree ==
    VerdictsGiven
        => LET meets_target == performance_analysis.target_achievement.meets_target
           IN  /\ meets_target <=> "TARGET MISSED" \notin diagnosis.issues
               /\ meets_target <=> report.executive_summary = <<"SUCCESS">>
               /\ meets_target <=> report.target = <<"Target achieved">>
               /\ final_summary.message = <<"SUCCESS">> => meets_target
               /\ final_summary.message = <<"ALMOST THERE">> => ~meets_target

\* the diagnosis has been made, of a run in which analyze_fec_packet_flow
\* computed a packet rate
RateDiagnosed ==
    /\ fec_pc \in {"diagnosed", "plotted", "reported", "done"}
    /\ data.fec_performance # <<>>
    /\ "packet_rates" \in DOMAIN packet_analysis

\* 80% of the expected rate of 3600 / 144 packets an hour
LowRateLimit == FMul(FDivInt(3600, PACKET_INTERVAL), FDivInt(8, 10))

\* C28: the issue 'LOW PACKET RATE' is raised exactly when the actual
\* packet rate computed by analyze_fec_packet_flow is below 80% of the
\* expected rate (3600 / 144 packets an hour); a run at or above 80% never
\* gets it.
C28_LowPacketRateBelow80Percent ==
    RateDiagnosed
        => ("LOW PACKET RATE" \in diagnosis.issues
               <=> FLt(packet_analysis.packet_rates.actual_rate, LowRateLimit))

----------------------------------------------------------------------------
(* The validated flag *)

\* C29: after any sequence of validate() calls on one record, whose
\* radio_data may be replaced between the calls, if the most recent call
\* returned False (radio data absent or empty) the validated flag of the
\* record is False.
C29_FalseResultMeansNotValidated ==
    validate_result = "False" => ~gt.validated

----------------------------------------------------------------------------
(* The range of the device rates *)

\* 0 <= x <= 100
WithinPercent(x) == FLe(FZero, x) /\ FLe(x, F100)

\* C30: for every device snapshot parse_transmission_stats returns,
\* whatever its total_attempts >= 0 and its efficiency,
\* 0 <= failed_attempts <= total_attempts, so that the packet_error_rate
\* and the packet_delivery_rate of each device lie between 0 and 100.
C30_FailedAttemptsWithinTotal ==
    /\ an_pc \in {"parsed", "calculated", "displayed"}
          => \A d \in DOMAIN transmission_stats :
                \A i \in 1..Len(transmission_stats[d]) :
                   /\ 0 <= transmission_stats[d][i].failed_attempts
                   /\ transmission_stats[d][i].failed_attempts
                          <= transmission_stats[d][i].total_attempts
    /\ an_pc \in {"calculated", "displayed"}
          => \A d \in DOMAIN error_analysis.per_device :
                /\ WithinPercent(error_analysis.per_device[d].packet_error_rate)
                /\ WithinPercent(error_analysis.per_device[d].packet_delivery_rate)

====
